---- MODULE Spec2Model ----
(***************************************************************************)
(* A model of the tracker dashboard: the trackers' in-memory lists, the    *)
(* browser key-value store (localStorage), the IndexedDB synchronization   *)
(* hook, the per-tracker JSON backups and the top-level backup of App.     *)
(*                                                                         *)
(* Each tracker is checked under its own specification; a specification    *)
(* leaves the variables of the other parts unchanged.                      *)
(*                                                                         *)
(* Conventions                                                             *)
(*   - a JavaScript array is a sequence;                                   *)
(*   - null and undefined are the strings Null and Undefined, used only    *)
(*     where the program's type admits them next to strings;               *)
(*   - Date.now() is 100 + now, where now is a clock that the Tick         *)
(*     action advances: two handlers that run without a Tick in between    *)
(*     read the same millisecond;                                          *)
(*   - a JSON text is modelled by the document it denotes (JSON.parse      *)
(*     ignores layout), or is not JSON at all.                             *)
(***************************************************************************)
EXTENDS Integers, Sequences, FiniteSets, TLC

(***************************************************************************)
(* Bounds of the model.                                                    *)
(***************************************************************************)
MaxClock == 1
MaxGoals == 2
MaxMilestones == 2
MaxEntries == 2
MaxItems == 2
MaxRows == 1
MaxGroups == 2
MaxTodos == 1
MaxProjects == 2
MaxNotes == 1
MaxCategories == 7

Null == "null"
Undefined == "undefined"

VARIABLES
  now,        \* the millisecond clock behind Date.now()
  lastOp,     \* the handler that ran last, and how it ended
  mounted,    \* the tracker view that is rendered
  crashed,    \* an uncaught error was thrown while rendering the view
  file,       \* the text the FileReader delivered to the import handler that ran last
  handed,     \* the <<store, value>> pairs the last handler gave to the persistence hook
  backup,     \* the file the mounted tracker's last export wrote
  atExport,   \* the mounted tracker's lists at the time of that export
  goals,      \* GoalsTracker: the in-memory goals list
  entries,    \* MoodTracker: the in-memory value of the entries hook
  items,      \* WishlistTracker: the in-memory items list
  categories, \* WishlistTracker: the in-memory categories list
  incomes,    \* HouseholdBudgetCalculator: the in-memory value of the incomes hook
  expenses,   \* HouseholdBudgetCalculator: the in-memory value of the expenses hook
  ls,         \* localStorage: the item stored under each key
  written,    \* per key, how the last write of the mounted tracker's hook ended
  todoGroups, \* TodoTracker: the in-memory value of the todoGroups hook
  projectGoals, \* ProjectTracker: the in-memory value of the goals hook
  full,       \* localStorage has no room left: setItem throws
  data,       \* useIndexedDB: the in-memory value of the hook
  record,     \* useIndexedDB: the value stored under the hook's key, or undefined
  opens,      \* useIndexedDB: the indexedDB.open requests that have not succeeded yet
  txs,        \* useIndexedDB: the transactions that have not completed, in creation order
  loads,      \* useIndexedDB: the number of runs of the load effect
  sets,       \* useIndexedDB: the number of setter calls
  latest,     \* useIndexedDB: the value the last setter call made the in-memory value
  database,   \* IndexedDB: the version of the component's database and its object stores
  reader      \* FileReader: the image read that has not ended, with what its callback closed over

lsVars == <<ls, written, todoGroups, projectGoals>>
idbVars == <<data, record, opens, txs, loads, sets, latest, database, reader>>
viewVars == <<mounted, crashed, file, handed, backup, atExport>>
memVars == <<goals, entries, items, categories, incomes, expenses>>
vars == <<now, lastOp, viewVars, memVars, lsVars, full, idbVars>>

(***************************************************************************)
(* Array helpers: Array.prototype.map / filter / some / every.             *)
(***************************************************************************)
Map(s, F(_)) == [i \in 1..Len(s) |-> F(s[i])]

Filter(s, P(_)) == SelectSeq(s, P)

Some(s, P(_)) == \E i \in 1..Len(s) : P(s[i])
Every(s, P(_)) == \A i \in 1..Len(s) : P(s[i])

DateNow == 100 + now

Op(name, outcome) == [op |-> name, outcome |-> outcome]

Last(s) == s[Len(s)]


(***************************************************************************)
(* JavaScript values that are not known to be lists: the result of         *)
(* JSON.parse, and a hook value that an import has set without checking.   *)
(* An array carries its elements in list, an object its members in props.  *)
(***************************************************************************)
Prim(k) == [kind |-> k, list |-> <<>>, props |-> <<>>]
Arr(l) == [kind |-> "array", list |-> l, props |-> <<>>]
Obj(p) == [kind |-> "object", list |-> <<>>, props |-> p]

IsArray(v) == v.kind = "array"
Truthy(v) == v.kind \in {"array", "object", "string", "number"}

\* data.name: reading a member of null throws a TypeError, reading a member
\* that is missing gives undefined.
Throws(v) == v.kind \in {"null", "undefined"}
Prop(v, name) ==
  IF v.kind = "object" /\ name \in DOMAIN v.props THEN v.props[name]
  ELSE Prim("undefined")

\* A text is the JSON document it denotes, or no JSON at all.
NotJSON == [ok |-> FALSE, doc |-> Prim("undefined")]
JSONstringify(doc) == [ok |-> TRUE, doc |-> doc]
JSONparse(text) ==
  IF text.ok THEN [threw |-> FALSE, value |-> text.doc]
  ELSE [threw |-> TRUE, value |-> Prim("undefined")]

\* No file has been read.
NoFile == [ok |-> FALSE, doc |-> Prim("none")]

\* No image is being read.
NoRead == [pending |-> FALSE]

(***************************************************************************)
(* The clock.                                                              *)
(***************************************************************************)
Tick ==
  /\ now < MaxClock
  /\ now' = now + 1
  /\ file' = NoFile
  /\ UNCHANGED <<lastOp, mounted, crashed, handed, backup, atExport, memVars, lsVars, full, idbVars>>

(***************************************************************************)
(* GoalsTracker                                                            *)
(***************************************************************************)
GoalsInitialValue ==
  << [id |-> 1, name |-> "New Goal", status |-> "Not Started", image |-> Null,
      milestones |-> << [id |-> 1, completed |-> FALSE],
                        [id |-> 2, completed |-> FALSE] >>,
      order |-> 1, archived |-> FALSE] >>

IsCompleted(m) == m.completed

updateGoalStatus(goal) ==
  LET hasStarted == Some(goal.milestones, IsCompleted)
      allCompleted == Every(goal.milestones, IsCompleted)
  IN IF allCompleted THEN "Done"
     ELSE IF hasStarted THEN "In Progress" ELSE "Not Started"

\* The setter returned by useIndexedDB('projectGoals', ...): the new value
\* becomes the in-memory value at once and is handed to the durable store.
setGoals(newValue) ==
  /\ goals' = newValue
  /\ handed' = << <<"projectGoals", newValue>> >>

GoalsFrame == UNCHANGED <<now, mounted, crashed, entries, items, categories, incomes, expenses, lsVars, full, idbVars>>

GoalsAddNewGoal ==
  /\ mounted = "goals"
  /\ Len(goals) < MaxGoals
  /\ LET newGoal == [id |-> DateNow, name |-> "New Goal", status |-> "Not Started",
                     image |-> Null, milestones |-> <<>>,
                     order |-> Len(goals) + 1, archived |-> FALSE]
     IN setGoals(Append(goals, newGoal))
  /\ lastOp' = Op("addNewGoal", "ok")
  /\ file' = NoFile
  /\ UNCHANGED <<backup, atExport>>
  /\ GoalsFrame

\* A variant that cuts the list at the goal.
GoalsDeleteGoal_Truncate ==
  /\ mounted = "goals"
  /\ \E i \in 1..Len(goals) :
       LET goalId == goals[i].id
           Keep(g) == g.id # goalId
       IN setGoals(SubSeq(goals, 1, i - 1))
  /\ lastOp' = Op("deleteGoal", "ok")
  /\ file' = NoFile
  /\ UNCHANGED <<backup, atExport>>
  /\ GoalsFrame

GoalsDeleteGoal ==
  /\ mounted = "goals"
  /\ \E i \in 1..Len(goals) :
       LET goalId == goals[i].id
           Keep(g) == g.id # goalId
       IN setGoals(Filter(goals, Keep))
  /\ lastOp' = Op("deleteGoal", "ok")
  /\ file' = NoFile
  /\ UNCHANGED <<backup, atExport>>
  /\ GoalsFrame

\* The add-task button of a rendered (active) goal.
GoalsAddTask ==
  /\ mounted = "goals"
  /\ \E i \in 1..Len(goals) :
       /\ ~goals[i].archived
       /\ Len(goals[i].milestones) < MaxMilestones
       /\ LET goalId == goals[i].id
              Upd(g) == IF g.id = goalId
                        THEN [g EXCEPT !.milestones =
                                Append(g.milestones, [id |-> DateNow, completed |-> FALSE])]
                        ELSE g
          IN setGoals(Map(goals, Upd))
  /\ lastOp' = Op("addTask", "ok")
  /\ file' = NoFile
  /\ UNCHANGED <<backup, atExport>>
  /\ GoalsFrame

\* Milestone.onToggle of milestone j of the rendered goal i.
GoalsToggleTask ==
  /\ mounted = "goals"
  /\ \E i \in 1..Len(goals) : \E j \in 1..Len(goals[i].milestones) :
       /\ ~goals[i].archived
       /\ LET goal == goals[i]
              milestoneId == goal.milestones[j].id
              Flip(m) == IF m.id = milestoneId
                         THEN [m EXCEPT !.completed = ~m.completed] ELSE m
              toggled == [goal EXCEPT !.milestones = Map(goal.milestones, Flip)]
              updatedGoal == [toggled EXCEPT !.status = updateGoalStatus(toggled)]
              Upd(g) == IF g.id = goal.id THEN updatedGoal ELSE g
          IN setGoals(Map(goals, Upd))
  /\ lastOp' = Op("toggleTask", "ok")
  /\ file' = NoFile
  /\ UNCHANGED <<backup, atExport>>
  /\ GoalsFrame

\* Milestone.onDelete of milestone j of the rendered goal i.
GoalsDeleteTask ==
  /\ mounted = "goals"
  /\ \E i \in 1..Len(goals) : \E j \in 1..Len(goals[i].milestones) :
       /\ ~goals[i].archived
       /\ LET goalId == goals[i].id
              milestoneId == goals[i].milestones[j].id
              Keep(m) == m.id # milestoneId
              Upd(g) == IF g.id = goalId
                        THEN [g EXCEPT !.milestones = Filter(g.milestones, Keep)]
                        ELSE g
          IN setGoals(Map(goals, Upd))
  /\ lastOp' = Op("deleteTask", "ok")
  /\ file' = NoFile
  /\ UNCHANGED <<backup, atExport>>
  /\ GoalsFrame

\* toggleArchiveGoal: the goals with the given id change sides.
toggleArchiveGoal ==
  /\ mounted = "goals"
  /\ \E i \in 1..Len(goals) :
       LET goalId == goals[i].id
           Toggle(g) == IF g.id = goalId THEN [g EXCEPT !.archived = ~g.archived] ELSE g
       IN setGoals(Map(goals, Toggle))
  /\ lastOp' = Op("toggleArchiveGoal", "ok")
  /\ file' = NoFile
  /\ UNCHANGED <<backup, atExport>>
  /\ GoalsFrame

\* list.findIndex(g => g.id === id), counted from 1; 0 stands for -1.
FindIndex(list, id) ==
  IF \E i \in 1..Len(list) : list[i].id = id
  THEN CHOOSE i \in 1..Len(list) :
         /\ list[i].id = id
         /\ \A j \in 1..(i - 1) : list[j].id # id
  ELSE 0

\* list.splice(index, 1) and list.splice(index, 0, item), counted from 1.
SpliceOut(list, index) == SubSeq(list, 1, index - 1) \o SubSeq(list, index + 1, Len(list))

SpliceIn(list, index, item) ==
  SubSeq(list, 1, index - 1) \o <<item>> \o SubSeq(list, index, Len(list))

\* The drop of the card at position dragged of the goals list (0: no drag
\* is in progress) on the card at position target.
Drop(dragged, target) ==
  [op |-> "handleDrop", outcome |-> "ok", dragged |-> dragged, target |-> target]

\* handleDrop: the dragged goal is taken out of the active goals and put
\* in at the target's index, the active goals are numbered, and the
\* archived goals follow.
handleDrop ==
  /\ mounted = "goals"
  /\ \E dragged \in 0..Len(goals), target \in 1..Len(goals) :
       /\ lastOp' = Drop(dragged, target)
       /\ IF dragged = 0
          THEN UNCHANGED <<goals, handed>>
          ELSE LET draggedGoalId == goals[dragged].id
                   targetGoalId == goals[target].id
                   activeGoals == SelectSeq(goals, LAMBDA g : ~g.archived)
                   draggedGoalIndex == FindIndex(activeGoals, draggedGoalId)
                   targetGoalIndex == FindIndex(activeGoals, targetGoalId)
                   newActiveGoals ==
                     SpliceIn(SpliceOut(activeGoals, draggedGoalIndex), targetGoalIndex,
                              activeGoals[draggedGoalIndex])
                   archivedGoals == SelectSeq(goals, LAMBDA g : g.archived)
               IN IF draggedGoalId = targetGoalId
                     \/ draggedGoalIndex = 0 \/ targetGoalIndex = 0
                  THEN UNCHANGED <<goals, handed>>
                  ELSE setGoals([idx \in 1..Len(newActiveGoals) |->
                                   [newActiveGoals[idx] EXCEPT !.order = idx]]
                                \o archivedGoals)
  /\ file' = NoFile
  /\ UNCHANGED <<backup, atExport>>
  /\ GoalsFrame

\* JSON.stringify of a goal: every member is a number, a string, a boolean,
\* null or a list of such objects, so every member is written.
GoalToJSON(g) ==
  [id |-> g.id, name |-> g.name, status |-> g.status, image |-> g.image,
   milestones |-> g.milestones, order |-> g.order, archived |-> g.archived]

handleExportProgress ==
  /\ backup' = JSONstringify(Obj([goals |-> Arr(Map(goals, GoalToJSON))]))
  /\ atExport' = [goals |-> goals]
  /\ lastOp' = Op("exportGoals", "ok")
  /\ file' = NoFile
  /\ UNCHANGED <<handed, goals>>

\* A variant that keeps the goals it had and adds the file's goals to them.
handleImportProgress_Merge(text) ==
  LET parsed == JSONparse(text)
      importedData == parsed.value
  IN /\ file' = text
     /\ IF parsed.threw \/ Throws(importedData) \/ ~IsArray(Prop(importedData, "goals"))
        THEN /\ lastOp' = Op("importGoals", "alert")
             /\ UNCHANGED <<handed, goals>>
        ELSE /\ setGoals(goals \o Prop(importedData, "goals").list)
             /\ lastOp' = Op("importGoals", "ok")
     /\ UNCHANGED <<backup, atExport>>

handleImportProgress(text) ==
  LET parsed == JSONparse(text)
      importedData == parsed.value
  IN /\ file' = text
     /\ IF parsed.threw \/ Throws(importedData) \/ ~IsArray(Prop(importedData, "goals"))
        THEN /\ lastOp' = Op("importGoals", "alert")
             /\ UNCHANGED <<handed, goals>>
        ELSE /\ setGoals(Prop(importedData, "goals").list)
             /\ lastOp' = Op("importGoals", "ok")
     /\ UNCHANGED <<backup, atExport>>

\* Two goals with the same id, as a file written by hand or by another
\* program may hold them.
SomeGoal(id, status, done) ==
  [id |-> id, name |-> "Goal", status |-> status, image |-> Null,
   milestones |-> << [id |-> 7, completed |-> done] >>,
   order |-> 1, archived |-> FALSE]

GoalsFiles ==
  { NotJSON,
    JSONstringify(Prim("null")),
    JSONstringify(Obj([version |-> Prim("number")])),
    JSONstringify(Obj([goals |-> Prim("string")])),
    JSONstringify(Obj([goals |-> Arr(<<>>)])),
    JSONstringify(Obj([goals |-> Arr(<<SomeGoal(50, "Done", TRUE)>>)])) }

GoalsExport ==
  /\ mounted = "goals"
  /\ handleExportProgress
  /\ GoalsFrame

GoalsImport ==
  /\ mounted = "goals"
  /\ \E text \in GoalsFiles \cup {backup} : handleImportProgress(text)
  /\ GoalsFrame

(***************************************************************************)
(* MoodTracker                                                             *)
(***************************************************************************)
MoodIds == {1, 5}

\* The component renders filteredEntries.map(...): with a hook value that is
\* not an array the render throws a TypeError that nothing catches.
MoodRenderThrows(value) == ~IsArray(value)

\* saveData, the setter returned by useIndexedDB('moodEntriesData', []).
setEntries(newValue) ==
  /\ entries' = newValue
  /\ handed' = << <<"moodEntries", newValue>> >>
  /\ crashed' = MoodRenderThrows(newValue)

MoodFrame == UNCHANGED <<now, mounted, goals, items, categories, incomes, expenses, lsVars, full, idbVars>>

addEntry ==
  /\ mounted = "mood" /\ ~crashed
  /\ Len(entries.list) < MaxEntries
  /\ \E mood \in MoodIds :
       setEntries(Arr(<<[id |-> DateNow, mood |-> mood, notes |-> <<>>]>> \o entries.list))
  /\ lastOp' = Op("addEntry", "ok")
  /\ file' = NoFile
  /\ UNCHANGED <<backup, atExport>>
  /\ MoodFrame

MoodDeleteEntry ==
  /\ mounted = "mood" /\ ~crashed
  /\ \E i \in 1..Len(entries.list) :
       LET entryId == entries.list[i].id
           Keep(e) == e.id # entryId
       IN setEntries(Arr(Filter(entries.list, Keep)))
  /\ lastOp' = Op("deleteEntry", "ok")
  /\ file' = NoFile
  /\ UNCHANGED <<backup, atExport>>
  /\ MoodFrame

EntryToJSON(e) == [id |-> e.id, mood |-> e.mood, notes |-> e.notes]

exportMoodEntries ==
  /\ backup' = JSONstringify(Arr(Map(entries.list, EntryToJSON)))
  /\ atExport' = [entries |-> entries.list]
  /\ lastOp' = Op("exportMood", "ok")
  /\ file' = NoFile
  /\ UNCHANGED <<handed, entries, crashed>>

importMoodEntries(text) ==
  LET parsed == JSONparse(text)
  IN /\ file' = text
     /\ IF parsed.threw
        THEN /\ lastOp' = Op("importMood", "alert")
             /\ UNCHANGED <<handed, entries, crashed>>
        ELSE /\ setEntries(parsed.value)
             /\ lastOp' = Op("importMood",
                             IF MoodRenderThrows(parsed.value) THEN "uncaught" ELSE "ok")
     /\ UNCHANGED <<backup, atExport>>

MoodFiles ==
  { NotJSON,
    JSONstringify(Prim("null")),
    JSONstringify(Obj([entries |-> Arr(<<>>)])),
    JSONstringify(Arr(<<>>)),
    JSONstringify(Arr(<<[id |-> 50, mood |-> 3, notes |-> <<>>]>>)) }

MoodExport ==
  /\ mounted = "mood" /\ ~crashed
  /\ exportMoodEntries
  /\ MoodFrame

MoodImport ==
  /\ mounted = "mood" /\ ~crashed
  /\ \E text \in MoodFiles \cup {backup} : importMoodEntries(text)
  /\ MoodFrame

(***************************************************************************)
(* WishlistTracker                                                         *)
(***************************************************************************)
CategoriesInitialValue ==
  << [id |-> "tech", name |-> "Technik"],
     [id |-> "kleidung", name |-> "Kleidung"],
     [id |-> "hobby", name |-> "Hobby"],
     [id |-> "haushalt", name |-> "Haushalt"],
     [id |-> "sonstiges", name |-> "Sonstiges"] >>

Images == {Undefined, "data:image"}

\* The setters returned by useIndexedDB('wishlist', ...) and
\* useIndexedDB('wishlist_categories', ...).
setItems(newValue) ==
  /\ items' = newValue
  /\ handed' = << <<"wishlist", newValue>> >>

setItemsAndCategories(newItems, newCategories) ==
  /\ items' = newItems
  /\ categories' = newCategories
  /\ handed' = << <<"wishlist", newItems>>, <<"wishlist_categories", newCategories>> >>

WishFrame == UNCHANGED <<now, mounted, crashed, goals, entries, incomes, expenses, lsVars, full, idbVars>>

\* handleSubmit with no item being edited: the form's item is appended.
handleSubmit ==
  /\ mounted = "wishlist"
  /\ Len(items) < MaxItems
  /\ \E image \in Images :
       setItems(Append(items, [id |-> DateNow,
                               category |-> IF categories = <<>> THEN ""
                                            ELSE categories[1].id,
                               createdAt |-> DateNow, image |-> image]))
  /\ lastOp' = Op("handleSubmit", "ok")
  /\ file' = NoFile
  /\ UNCHANGED <<backup, atExport, categories>>
  /\ WishFrame

\* The names typed into the new-category field, and what trim(),
\* toLowerCase() and replace(/\s+/g, '-') make of them.
CategoryNames == {"  ", "Tech", "tech", "Neue  Dinge", "neue dinge"}

IsBlank(name) == name = "  "

toLowerCase(name) ==
  CASE name = "Tech" -> "tech"
    [] name = "Neue  Dinge" -> "neue  dinge"
    [] OTHER -> name

ReplaceWhitespace(name) ==
  CASE name = "neue  dinge" -> "neue-dinge"
    [] name = "neue dinge" -> "neue-dinge"
    [] name = "  " -> "-"
    [] OTHER -> name

\* handleAddCategory of the tracker with its own hook: a category is
\* pushed unless one with the derived id is there.
handleAddCategory ==
  /\ mounted = "wishlist"
  /\ Len(categories) < MaxCategories
  /\ \E newCategory \in CategoryNames :
       LET categoryId == ReplaceWhitespace(toLowerCase(newCategory))
           updated == IF \E i \in 1..Len(categories) : categories[i].id = categoryId
                      THEN categories
                      ELSE Append(categories, [id |-> categoryId, name |-> newCategory])
       IN IF IsBlank(newCategory)
          THEN UNCHANGED <<categories, handed>>
          ELSE /\ categories' = updated
               /\ handed' = << <<"wishlist_categories", updated>> >>
  /\ lastOp' = Op("handleAddCategory", "ok")
  /\ file' = NoFile
  /\ UNCHANGED <<backup, atExport, items>>
  /\ WishFrame

\* handleAddCategory of the tracker that imports the hook: the category
\* is appended.
Part000HandleAddCategory ==
  /\ mounted = "wishlist_part_000"
  /\ Len(categories) < MaxCategories
  /\ \E newCategory \in CategoryNames :
       LET categoryId == ReplaceWhitespace(toLowerCase(newCategory))
           updated == Append(categories, [id |-> categoryId, name |-> newCategory])
       IN IF IsBlank(newCategory)
          THEN UNCHANGED <<categories, handed>>
          ELSE /\ categories' = updated
               /\ handed' = << <<"wishlist_categories", updated>> >>
  /\ lastOp' = Op("handleAddCategory", "ok")
  /\ file' = NoFile
  /\ UNCHANGED <<backup, atExport, items>>
  /\ WishFrame

deleteItem ==
  /\ mounted = "wishlist"
  /\ \E i \in 1..Len(items) :
       LET id == items[i].id
           Keep(item) == item.id # id
       IN setItems(Filter(items, Keep))
  /\ lastOp' = Op("deleteItem", "ok")
  /\ file' = NoFile
  /\ UNCHANGED <<backup, atExport, categories>>
  /\ WishFrame

\* A variant that writes no image at all.
ItemToJSON_NoImage(item) ==
  [id |-> item.id, category |-> item.category, createdAt |-> item.createdAt]

\* JSON.stringify leaves out a member whose value is undefined.
ItemToJSON(item) ==
  IF item.image = Undefined
  THEN [id |-> item.id, category |-> item.category, createdAt |-> item.createdAt]
  ELSE [id |-> item.id, category |-> item.category, createdAt |-> item.createdAt,
        image |-> item.image]

\* An imported item as the component reads it: a member that the file does
\* not have reads as undefined.
ItemFromJSON(o) ==
  [id |-> o.id, category |-> o.category, createdAt |-> o.createdAt,
   image |-> IF "image" \in DOMAIN o THEN o.image ELSE Undefined]

handleExportData ==
  /\ backup' = JSONstringify(Obj([items |-> Arr(Map(items, ItemToJSON)),
                                  categories |-> Arr(categories)]))
  /\ atExport' = [items |-> items, categories |-> categories]
  /\ lastOp' = Op("exportWishlist", "ok")
  /\ file' = NoFile
  /\ UNCHANGED <<handed, items, categories>>

handleImportData(text) ==
  LET parsed == JSONparse(text)
      importedData == parsed.value
  IN /\ file' = text
     /\ IF \/ parsed.threw
           \/ Throws(importedData)
           \/ ~IsArray(Prop(importedData, "items"))
           \/ ~IsArray(Prop(importedData, "categories"))
        THEN /\ lastOp' = Op("importWishlist", "alert")
             /\ UNCHANGED <<handed, items, categories>>
        ELSE /\ setItemsAndCategories(Map(Prop(importedData, "items").list, ItemFromJSON),
                                      Prop(importedData, "categories").list)
             /\ lastOp' = Op("importWishlist", "ok")
     /\ UNCHANGED <<backup, atExport>>

WishFiles ==
  { NotJSON,
    JSONstringify(Prim("null")),
    JSONstringify(Obj([items |-> Arr(<<>>)])),
    JSONstringify(Obj([items |-> Arr(<<>>), categories |-> Prim("string")])),
    JSONstringify(Obj([items |-> Arr(<<>>), categories |-> Arr(<<>>)])),
    JSONstringify(Obj([items |-> Arr(<<[id |-> 50, category |-> "buch", createdAt |-> 50]>>),
                       categories |-> Arr(<<[id |-> "buch", name |-> "Buch"]>>)])) }

WishExport ==
  /\ mounted = "wishlist"
  /\ handleExportData
  /\ WishFrame

WishImport ==
  /\ mounted = "wishlist"
  /\ \E text \in WishFiles \cup {backup} : handleImportData(text)
  /\ WishFrame

(***************************************************************************)
(* HouseholdBudgetCalculator (the IndexedDB build)                         *)
(***************************************************************************)
Row(category) == [category |-> category, amount |-> "0", purpose |-> ""]

IncomesInitialValue ==
  << Row("Salary Person 1"), Row("Salary Person 2"), Row("Side Job"), Row("Other Income") >>

ExpensesInitialValue ==
  << Row("Rent/Mortgage"), Row("Utilities"), Row("Groceries"), Row("Transportation"),
     Row("Insurance") >>

\* calculateTotals runs in every render: incomes.reduce and expenses.reduce
\* throw a TypeError on a value that is not an array.
BudgetRenderThrows(inc, exp) == ~IsArray(inc) \/ ~IsArray(exp)

setIncomes(newValue) ==
  /\ incomes' = newValue
  /\ handed' = << <<"incomes", newValue>> >>
  /\ crashed' = BudgetRenderThrows(newValue, expenses)

setExpenses(newValue) ==
  /\ expenses' = newValue
  /\ handed' = << <<"expenses", newValue>> >>
  /\ crashed' = BudgetRenderThrows(incomes, newValue)

setIncomesAndExpenses(newIncomes, newExpenses) ==
  /\ incomes' = newIncomes
  /\ expenses' = newExpenses
  /\ handed' = << <<"incomes", newIncomes>>, <<"expenses", newExpenses>> >>
  /\ crashed' = BudgetRenderThrows(newIncomes, newExpenses)

BudgetFrame == UNCHANGED <<now, mounted, goals, entries, items, categories, lsVars, full, idbVars>>

addIncomeRow ==
  /\ mounted = "budget" /\ ~crashed
  /\ Len(incomes.list) < Len(IncomesInitialValue) + MaxRows
  /\ setIncomes(Arr(Append(incomes.list, Row("New Income"))))
  /\ lastOp' = Op("addIncomeRow", "ok")
  /\ file' = NoFile
  /\ UNCHANGED <<backup, atExport, expenses>>
  /\ BudgetFrame

addExpenseRow ==
  /\ mounted = "budget" /\ ~crashed
  /\ Len(expenses.list) < Len(ExpensesInitialValue) + MaxRows
  /\ setExpenses(Arr(Append(expenses.list, Row("New Expense"))))
  /\ lastOp' = Op("addExpenseRow", "ok")
  /\ file' = NoFile
  /\ UNCHANGED <<backup, atExport, incomes>>
  /\ BudgetFrame

resetTables ==
  /\ mounted = "budget" /\ ~crashed
  /\ setIncomesAndExpenses(Arr(IncomesInitialValue), Arr(ExpensesInitialValue))
  /\ lastOp' = Op("resetTables", "ok")
  /\ file' = NoFile
  /\ UNCHANGED <<backup, atExport>>
  /\ BudgetFrame

RowToJSON(r) == [category |-> r.category, amount |-> r.amount, purpose |-> r.purpose]

handleExport ==
  /\ backup' = JSONstringify(Obj([incomes |-> Arr(Map(incomes.list, RowToJSON)),
                                  expenses |-> Arr(Map(expenses.list, RowToJSON))]))
  /\ atExport' = [incomes |-> incomes.list, expenses |-> expenses.list]
  /\ lastOp' = Op("exportBudget", "ok")
  /\ file' = NoFile
  /\ UNCHANGED <<handed, incomes, expenses, crashed>>

\* importData with the callback of handleImport.
handleImport(text) ==
  LET parsed == JSONparse(text)
      importedData == parsed.value
  IN /\ file' = text
     /\ IF parsed.threw \/ Throws(importedData)
        THEN /\ lastOp' = Op("importBudget", "alert")
             /\ UNCHANGED <<handed, incomes, expenses, crashed>>
        ELSE IF Truthy(Prop(importedData, "incomes")) /\ Truthy(Prop(importedData, "expenses"))
        THEN /\ setIncomesAndExpenses(Prop(importedData, "incomes"),
                                      Prop(importedData, "expenses"))
             /\ lastOp' = Op("importBudget",
                             IF BudgetRenderThrows(Prop(importedData, "incomes"),
                                                   Prop(importedData, "expenses"))
                             THEN "uncaught" ELSE "ok")
        ELSE /\ lastOp' = Op("importBudget", "alert")
             /\ UNCHANGED <<handed, incomes, expenses, crashed>>
     /\ UNCHANGED <<backup, atExport>>

BudgetFiles ==
  { NotJSON,
    JSONstringify(Prim("null")),
    JSONstringify(Obj([incomes |-> Arr(<<>>)])),
    JSONstringify(Obj([incomes |-> Prim("string"), expenses |-> Prim("number")])),
    JSONstringify(Obj([incomes |-> Arr(<<>>), expenses |-> Arr(<<>>)])),
    JSONstringify(Obj([incomes |-> Arr(<<Row("Gift")>>), expenses |-> Arr(<<Row("Rent")>>)])) }

BudgetExport ==
  /\ mounted = "budget" /\ ~crashed
  /\ handleExport
  /\ BudgetFrame

BudgetImport ==
  /\ mounted = "budget" /\ ~crashed
  /\ \E text \in BudgetFiles \cup {backup} : handleImport(text)
  /\ BudgetFrame

(***************************************************************************)
(* localStorage.  An item is the text stored under a key; getItem of a key *)
(* that was never written gives null.                                      *)
(***************************************************************************)
ExportKeys == {"activeTab", "projects", "goals", "mood", "lifeEQ", "todos"}
Keys == ExportKeys \cup {"todoGroups", "projectTrackerGoals", "incomes", "expenses"}

NoItem == [absent |-> TRUE]
EmptyStorage == [k \in Keys |-> NoItem]
NothingWritten == [k \in Keys |-> "none"]

\* A hook value while its component is not rendered.
Unmounted == Prim("unmounted")

\* The initializer of useState in useLocalStorage:
\* item ? JSON.parse(item) : initialValue, and initialValue if that throws.
ReadStorage(storage, key, initialValue) ==
  LET item == storage[key]
  IN IF item = NoItem THEN initialValue
     ELSE IF JSONparse(item).threw THEN initialValue
     ELSE JSONparse(item).value

\* localStorage.setItem stores the text, or throws when there is no room.
SetItemOutcome == IF full THEN "quota" ELSE "ok"

\* The room in the store is not in the hands of the page.
StorageFills ==
  /\ ~full
  /\ full' = TRUE
  /\ file' = NoFile
  /\ UNCHANGED <<now, lastOp, mounted, crashed, handed, backup, atExport, memVars, lsVars, idbVars>>

StorageClears ==
  /\ full
  /\ full' = FALSE
  /\ file' = NoFile
  /\ UNCHANGED <<now, lastOp, mounted, crashed, handed, backup, atExport, memVars, lsVars, idbVars>>

(***************************************************************************)
(* TodoTracker                                                             *)
(***************************************************************************)
\* A variant in which the hook of TodoTracker is given ProjectTracker's key.
TodoKey_Shared == "projectTrackerGoals"

TodoKey == "todoGroups"

TodoInitialValue == Arr(<< [id |-> DateNow, todos |-> <<>>] >>)

getPriorityRank(priority) ==
  CASE priority = "high" -> 3
    [] priority = "medium" -> 2
    [] priority = "low" -> 1
    [] OTHER -> 0

\* The priorities the model selects for a new task.
PriorityChoices == {"none", "high"}

\* Array.prototype.sort with (a, b) => rank(b) - rank(a): a stable sort in
\* descending rank.
RECURSIVE SortByPriority(_)
SortByPriority(todos) ==
  IF Len(todos) <= 1 THEN todos
  ELSE LET rest == SortByPriority(Tail(todos))
           x == Head(todos)
           before == SelectSeq(rest, LAMBDA t : getPriorityRank(t.priority) > getPriorityRank(x.priority))
           after == SelectSeq(rest, LAMBDA t : getPriorityRank(t.priority) <= getPriorityRank(x.priority))
       IN before \o <<x>> \o after

\* A variant of the setter that stores the value of the last render.
TodoSetValue_Stale(valueToStore) ==
  /\ todoGroups' = valueToStore
  /\ ls' = IF SetItemOutcome = "ok"
           THEN [ls EXCEPT ![TodoKey] = JSONstringify(todoGroups)]
           ELSE ls
  /\ written' = [written EXCEPT ![TodoKey] = SetItemOutcome]

\* setValue of useLocalStorage: the in-memory value is set first, then the
\* item is written; an exception is logged.
TodoSetValue(valueToStore) ==
  /\ todoGroups' = valueToStore
  /\ ls' = IF SetItemOutcome = "ok"
           THEN [ls EXCEPT ![TodoKey] = JSONstringify(valueToStore)]
           ELSE ls
  /\ written' = [written EXCEPT ![TodoKey] = SetItemOutcome]

TodoFrame ==
  UNCHANGED <<now, mounted, crashed, handed, backup, atExport, memVars, projectGoals, full, idbVars>>

addNewGroup ==
  /\ mounted = "todos" /\ IsArray(todoGroups)
  /\ Len(todoGroups.list) < MaxGroups
  /\ LET newGroup == [id |-> DateNow, todos |-> <<>>]
     IN TodoSetValue(Arr(<<newGroup>> \o todoGroups.list))
  /\ lastOp' = Op("addNewGroup", "ok")
  /\ file' = NoFile
  /\ TodoFrame

deleteGroup ==
  /\ mounted = "todos" /\ IsArray(todoGroups)
  /\ \E i \in 1..Len(todoGroups.list), confirmDelete \in BOOLEAN :
       LET groupId == todoGroups.list[i].id
       IN IF confirmDelete
          THEN TodoSetValue(Arr(SelectSeq(todoGroups.list, LAMBDA group : group.id # groupId)))
          ELSE UNCHANGED <<todoGroups, ls, written>>
  /\ lastOp' = Op("deleteGroup", "ok")
  /\ file' = NoFile
  /\ TodoFrame

\* text.trim() of the two inputs the model types into the new-task field.
Trim(text) == IF text = "  " THEN "" ELSE text

addTodo ==
  /\ mounted = "todos" /\ IsArray(todoGroups)
  /\ \E i \in 1..Len(todoGroups.list), text \in {"  ", "task"},
        priority \in PriorityChoices :
       LET groupId == todoGroups.list[i].id
           newTodo == [id |-> DateNow, text |-> Trim(text), completed |-> FALSE,
                       notes |-> <<>>, priority |-> priority, archived |-> FALSE]
           WithTodo(group) ==
             IF group.id = groupId
             THEN [group EXCEPT !.todos = SortByPriority(<<newTodo>> \o group.todos)]
             ELSE group
       IN /\ Len(todoGroups.list[i].todos) < MaxTodos
          /\ IF Trim(text) # ""
             THEN TodoSetValue(Arr(Map(todoGroups.list, WithTodo)))
             ELSE UNCHANGED <<todoGroups, ls, written>>
  /\ lastOp' = Op("addTodo", "ok")
  /\ file' = NoFile
  /\ TodoFrame

toggleTodo ==
  /\ mounted = "todos" /\ IsArray(todoGroups)
  /\ \E i \in 1..Len(todoGroups.list) :
       \E j \in 1..Len(todoGroups.list[i].todos) :
         LET groupId == todoGroups.list[i].id
             todoId == todoGroups.list[i].todos[j].id
             Toggle(todo) ==
               IF todo.id = todoId THEN [todo EXCEPT !.completed = ~todo.completed]
               ELSE todo
             InGroup(group) ==
               IF group.id = groupId
               THEN [group EXCEPT !.todos = SortByPriority(Map(group.todos, Toggle))]
               ELSE group
         IN TodoSetValue(Arr(Map(todoGroups.list, InGroup)))
  /\ lastOp' = Op("toggleTodo", "ok")
  /\ file' = NoFile
  /\ TodoFrame

deleteTodo ==
  /\ mounted = "todos" /\ IsArray(todoGroups)
  /\ \E i \in 1..Len(todoGroups.list) :
       \E j \in 1..Len(todoGroups.list[i].todos) :
         LET groupId == todoGroups.list[i].id
             todoId == todoGroups.list[i].todos[j].id
             InGroup(group) ==
               IF group.id = groupId
               THEN [group EXCEPT !.todos = SelectSeq(group.todos, LAMBDA todo : todo.id # todoId)]
               ELSE group
         IN TodoSetValue(Arr(Map(todoGroups.list, InGroup)))
  /\ lastOp' = Op("deleteTodo", "ok")
  /\ file' = NoFile
  /\ TodoFrame

\* The handlers below replace one field of the todo with the given id in
\* the group with the given id; all but the two for notes sort the group's
\* todos again.
archiveTodo ==
  /\ mounted = "todos" /\ IsArray(todoGroups)
  /\ \E i \in 1..Len(todoGroups.list) :
       \E j \in 1..Len(todoGroups.list[i].todos) :
         LET groupId == todoGroups.list[i].id
             todoId == todoGroups.list[i].todos[j].id
             Change(todo) ==
               IF todo.id = todoId THEN [todo EXCEPT !.archived = TRUE]
               ELSE todo
             InGroup(group) ==
               IF group.id = groupId
               THEN [group EXCEPT !.todos = SortByPriority(Map(group.todos, Change))]
               ELSE group
         IN TodoSetValue(Arr(Map(todoGroups.list, InGroup)))
  /\ lastOp' = Op("archiveTodo", "ok")
  /\ file' = NoFile
  /\ TodoFrame

unarchiveTodo ==
  /\ mounted = "todos" /\ IsArray(todoGroups)
  /\ \E i \in 1..Len(todoGroups.list) :
       \E j \in 1..Len(todoGroups.list[i].todos) :
         LET groupId == todoGroups.list[i].id
             todoId == todoGroups.list[i].todos[j].id
             Change(todo) ==
               IF todo.id = todoId THEN [todo EXCEPT !.archived = FALSE]
               ELSE todo
             InGroup(group) ==
               IF group.id = groupId
               THEN [group EXCEPT !.todos = SortByPriority(Map(group.todos, Change))]
               ELSE group
         IN TodoSetValue(Arr(Map(todoGroups.list, InGroup)))
  /\ lastOp' = Op("unarchiveTodo", "ok")
  /\ file' = NoFile
  /\ TodoFrame

\* A variant that leaves the todos where they are.
setPriority_Unsorted ==
  /\ mounted = "todos" /\ IsArray(todoGroups)
  /\ \E i \in 1..Len(todoGroups.list) :
       \E j \in 1..Len(todoGroups.list[i].todos), priority \in PriorityChoices :
         LET groupId == todoGroups.list[i].id
             todoId == todoGroups.list[i].todos[j].id
             Change(todo) ==
               IF todo.id = todoId THEN [todo EXCEPT !.priority = priority]
               ELSE todo
             InGroup(group) ==
               IF group.id = groupId
               THEN [group EXCEPT !.todos = Map(group.todos, Change)]
               ELSE group
         IN TodoSetValue(Arr(Map(todoGroups.list, InGroup)))
  /\ lastOp' = Op("setPriority", "ok")
  /\ file' = NoFile
  /\ TodoFrame

setPriority ==
  /\ mounted = "todos" /\ IsArray(todoGroups)
  /\ \E i \in 1..Len(todoGroups.list) :
       \E j \in 1..Len(todoGroups.list[i].todos), priority \in PriorityChoices :
         LET groupId == todoGroups.list[i].id
             todoId == todoGroups.list[i].todos[j].id
             Change(todo) ==
               IF todo.id = todoId THEN [todo EXCEPT !.priority = priority]
               ELSE todo
             InGroup(group) ==
               IF group.id = groupId
               THEN [group EXCEPT !.todos = SortByPriority(Map(group.todos, Change))]
               ELSE group
         IN TodoSetValue(Arr(Map(todoGroups.list, InGroup)))
  /\ lastOp' = Op("setPriority", "ok")
  /\ file' = NoFile
  /\ TodoFrame

\* The notes of all todos of all groups, by their positions.
NotesIn(list) ==
  UNION { UNION { { <<i, j, n>> : n \in 1..Len(list[i].todos[j].notes) } :
                  j \in 1..Len(list[i].todos) } :
          i \in 1..Len(list) }

\* addNote appends a note unless the text is blank.
addNote ==
  /\ mounted = "todos" /\ IsArray(todoGroups)
  /\ \E i \in 1..Len(todoGroups.list) :
       \E j \in 1..Len(todoGroups.list[i].todos), noteText \in {"  ", "note"} :
         LET groupId == todoGroups.list[i].id
             todoId == todoGroups.list[i].todos[j].id
             Change(todo) ==
               IF todo.id = todoId
               THEN [todo EXCEPT !.notes = Append(@, [id |-> DateNow, text |-> Trim(noteText)])]
               ELSE todo
             InGroup(group) ==
               IF group.id = groupId
               THEN [group EXCEPT !.todos = Map(group.todos, Change)]
               ELSE group
         IN /\ Cardinality(NotesIn(todoGroups.list)) < MaxNotes
            /\ IF Trim(noteText) # ""
               THEN TodoSetValue(Arr(Map(todoGroups.list, InGroup)))
               ELSE UNCHANGED <<todoGroups, ls, written>>
  /\ lastOp' = Op("addNote", "ok")
  /\ file' = NoFile
  /\ TodoFrame

deleteNote ==
  /\ mounted = "todos" /\ IsArray(todoGroups)
  /\ \E i \in 1..Len(todoGroups.list) :
       \E j \in 1..Len(todoGroups.list[i].todos) :
         \E n \in 1..Len(todoGroups.list[i].todos[j].notes) :
           LET groupId == todoGroups.list[i].id
               todoId == todoGroups.list[i].todos[j].id
               noteId == todoGroups.list[i].todos[j].notes[n].id
               Change(todo) ==
                 IF todo.id = todoId
                 THEN [todo EXCEPT !.notes = SelectSeq(@, LAMBDA note : note.id # noteId)]
                 ELSE todo
               InGroup(group) ==
                 IF group.id = groupId
                 THEN [group EXCEPT !.todos = Map(group.todos, Change)]
                 ELSE group
           IN TodoSetValue(Arr(Map(todoGroups.list, InGroup)))
  /\ lastOp' = Op("deleteNote", "ok")
  /\ file' = NoFile
  /\ TodoFrame

(***************************************************************************)
(* ProjectTracker                                                          *)
(***************************************************************************)
ProjectKey == "projectTrackerGoals"

\* An image is null or a data URL, of which the model keeps the length.
NoImage == [kind |-> "null"]
Image(length) == [kind |-> "string", length |-> length]
ImageLimit == 1000
SizeLimit == 5000000
\* 1024 * 1024
MaxFileSize == 1048576
ImageLengths == {ImageLimit, ImageLimit + 1, SizeLimit}
FileSizes == {MaxFileSize, MaxFileSize + 1}

ProjectInitialValue ==
  Arr(<< [id |-> 1, status |-> "Not started", image |-> NoImage,
          milestones |-> << [id |-> 1, completed |-> FALSE], [id |-> 2, completed |-> FALSE] >>,
          order |-> 1, archived |-> FALSE, favorite |-> FALSE] >>)

\* JSON.stringify(newGoals).length, as far as it decides the comparison
\* with the limit: the brackets, and for each goal its image's characters
\* and one more for the rest of the goal.
RECURSIVE SerializedLength(_)
SerializedLength(list) ==
  IF list = <<>> THEN 2
  ELSE 1 + (IF Head(list).image = NoImage THEN 0 ELSE Head(list).image.length)
         + SerializedLength(Tail(list))

\* item.image && item.image.length > 1000 ? null : item.image
WithoutLargeImage(item) ==
  IF item.image # NoImage /\ item.image.length > ImageLimit
  THEN [item EXCEPT !.image = NoImage]
  ELSE item

\* What localStorage.setItem does with the goals and then with the goals
\* without their large images: the first write succeeds ("ok"), only the
\* second, shorter one does ("fallback"), or both throw ("quota").
ProjectOutcomes(valueToStore) ==
  IF ~full THEN {"ok"}
  ELSE IF Arr(Map(valueToStore.list, WithoutLargeImage)) # valueToStore
  THEN {"fallback", "quota"}
  ELSE {"quota"}

\* A variant that puts the value in memory whether it was written or not.
ProjectSetValue_Eager(valueToStore, outcome) ==
  LET backupData == Arr(Map(valueToStore.list, WithoutLargeImage))
  IN CASE outcome = "ok" ->
            /\ ls' = [ls EXCEPT ![ProjectKey] = JSONstringify(valueToStore)]
            /\ projectGoals' = valueToStore
            /\ written' = [written EXCEPT ![ProjectKey] = "ok"]
       [] outcome = "fallback" ->
            /\ ls' = [ls EXCEPT ![ProjectKey] = JSONstringify(backupData)]
            /\ projectGoals' = backupData
            /\ written' = [written EXCEPT ![ProjectKey] = "fallback"]
       [] outcome = "quota" ->
            /\ projectGoals' = valueToStore
            /\ UNCHANGED ls
            /\ written' = [written EXCEPT ![ProjectKey] = "quota"]

\* setValue of ProjectTracker's useLocalStorage: the in-memory value is set
\* after the item is written; when the write throws, the goals are written
\* and kept without their large images; when that throws too, nothing
\* changes.
ProjectSetValue(valueToStore, outcome) ==
  LET backupData == Arr(Map(valueToStore.list, WithoutLargeImage))
  IN CASE outcome = "ok" ->
            /\ ls' = [ls EXCEPT ![ProjectKey] = JSONstringify(valueToStore)]
            /\ projectGoals' = valueToStore
            /\ written' = [written EXCEPT ![ProjectKey] = "ok"]
       [] outcome = "fallback" ->
            /\ ls' = [ls EXCEPT ![ProjectKey] = JSONstringify(backupData)]
            /\ projectGoals' = backupData
            /\ written' = [written EXCEPT ![ProjectKey] = "fallback"]
       [] outcome = "quota" ->
            /\ UNCHANGED <<ls, projectGoals>>
            /\ written' = [written EXCEPT ![ProjectKey] = "quota"]

\* How a handler that called the setter ended: the setter returns normally
\* and reports a failed write in an alert.
ProjectEnded(outcome) == IF outcome = "ok" THEN "ok" ELSE "alert"

ProjectFrame ==
  UNCHANGED <<now, mounted, crashed, handed, backup, atExport, memVars, todoGroups, full, idbVars>>

ProjectAddNewGoal ==
  /\ mounted = "projects" /\ IsArray(projectGoals)
  /\ Len(projectGoals.list) < MaxProjects
  /\ LET newGoal == [id |-> DateNow, status |-> "Not started", image |-> NoImage,
                     milestones |-> <<>>, order |-> Len(projectGoals.list) + 1,
                     archived |-> FALSE, favorite |-> FALSE]
         newGoals == Arr(projectGoals.list \o <<newGoal>>)
     IN IF SerializedLength(newGoals.list) > SizeLimit
        THEN \* throw new Error(...), caught: alert
             /\ lastOp' = Op("addNewProject", "alert")
             /\ UNCHANGED <<ls, projectGoals, written>>
        ELSE \E outcome \in ProjectOutcomes(newGoals) :
               /\ ProjectSetValue(newGoals, outcome)
               /\ lastOp' = Op("addNewProject", ProjectEnded(outcome))
  /\ file' = NoFile
  /\ ProjectFrame

ProjectDeleteGoal ==
  /\ mounted = "projects" /\ IsArray(projectGoals)
  /\ \E i \in 1..Len(projectGoals.list) :
       LET goalId == projectGoals.list[i].id
           newGoals == Arr(SelectSeq(projectGoals.list, LAMBDA g : g.id # goalId))
       IN \E outcome \in ProjectOutcomes(newGoals) :
            /\ ProjectSetValue(newGoals, outcome)
            /\ lastOp' = Op("deleteProject", ProjectEnded(outcome))
  /\ file' = NoFile
  /\ ProjectFrame

\* handleImageUpload with a file that is not too large: readAsDataURL
\* starts, and reader.onloadend will call the setGoals of this render,
\* whose setValue closed over this render's storedValue.
ProjectReadImage ==
  /\ mounted = "projects" /\ IsArray(projectGoals)
  /\ ~reader.pending
  /\ \E i \in 1..Len(projectGoals.list) :
       reader' = [pending |-> TRUE, goalId |-> projectGoals.list[i].id,
                  storedValue |-> projectGoals]
  /\ lastOp' = Op("readAsDataURL", "ok")
  /\ file' = NoFile
  /\ UNCHANGED <<now, mounted, crashed, handed, backup, atExport, memVars, lsVars, full,
                 data, record, opens, txs, loads, sets, latest, database>>

\* reader.onloadend, img.onload: setGoals(currentGoals => ...), where the
\* hook calls the function with the storedValue of its closure.
ProjectImageLoaded ==
  /\ mounted = "projects" /\ IsArray(projectGoals)
  /\ reader.pending
  /\ \E length \in ImageLengths :
       LET WithImage(g) ==
             IF g.id = reader.goalId THEN [g EXCEPT !.image = Image(length)] ELSE g
           newGoals == Arr(Map(reader.storedValue.list, WithImage))
       IN \E outcome \in ProjectOutcomes(newGoals) :
            /\ ProjectSetValue(newGoals, outcome)
            /\ lastOp' = Op("reader.onloadend", ProjectEnded(outcome))
  /\ reader' = NoRead
  /\ file' = NoFile
  /\ UNCHANGED <<now, mounted, crashed, handed, backup, atExport, memVars, todoGroups, full,
                 data, record, opens, txs, loads, sets, latest, database>>

\* handleImageUpload ran with a file of the given size.
Upload(size, outcome) == [op |-> "uploadProjectImage", outcome |-> outcome, size |-> size]

\* A variant that takes a file of any size.
ProjectImageUpload_AnySize ==
  /\ mounted = "projects" /\ IsArray(projectGoals)
  /\ \E i \in 1..Len(projectGoals.list), size \in FileSizes, length \in ImageLengths :
       LET goalId == projectGoals.list[i].id
           WithImage(g) == IF g.id = goalId THEN [g EXCEPT !.image = Image(length)] ELSE g
           newGoals == Arr(Map(projectGoals.list, WithImage))
       IN \E outcome \in ProjectOutcomes(newGoals) :
            /\ ProjectSetValue(newGoals, outcome)
            /\ lastOp' = Upload(size, ProjectEnded(outcome))
  /\ file' = NoFile
  /\ ProjectFrame

ProjectImageUpload ==
  /\ mounted = "projects" /\ IsArray(projectGoals)
  /\ \E i \in 1..Len(projectGoals.list), size \in FileSizes, length \in ImageLengths :
       LET goalId == projectGoals.list[i].id
           WithImage(g) == IF g.id = goalId THEN [g EXCEPT !.image = Image(length)] ELSE g
           newGoals == Arr(Map(projectGoals.list, WithImage))
       IN IF size > MaxFileSize
          THEN \* alert, return
               /\ lastOp' = Upload(size, "alert")
               /\ UNCHANGED <<ls, projectGoals, written>>
          ELSE \E outcome \in ProjectOutcomes(newGoals) :
                 /\ ProjectSetValue(newGoals, outcome)
                 /\ lastOp' = Upload(size, ProjectEnded(outcome))
  /\ file' = NoFile
  /\ ProjectFrame

(***************************************************************************)
(* HouseholdBudgetCalculator on localStorage                               *)
(***************************************************************************)
\* setValue of the exported useLocalStorage, for the incomes hook and for
\* the expenses hook.
CalcSetIncomes(valueToStore) ==
  /\ incomes' = valueToStore
  /\ ls' = IF SetItemOutcome = "ok"
           THEN [ls EXCEPT !["incomes"] = JSONstringify(valueToStore)]
           ELSE ls
  /\ written' = [written EXCEPT !["incomes"] = SetItemOutcome]

CalcSetExpenses(valueToStore) ==
  /\ expenses' = valueToStore
  /\ ls' = IF SetItemOutcome = "ok"
           THEN [ls EXCEPT !["expenses"] = JSONstringify(valueToStore)]
           ELSE ls
  /\ written' = [written EXCEPT !["expenses"] = SetItemOutcome]

CalcFrame ==
  UNCHANGED <<now, mounted, crashed, handed, backup, atExport, goals, entries,
              items, categories, todoGroups, projectGoals, full, idbVars>>

CalcAddIncomeRow ==
  /\ mounted = "calculator"
  /\ Len(incomes.list) < Len(IncomesInitialValue) + MaxRows
  /\ CalcSetIncomes(Arr(incomes.list \o <<Row("New Income")>>))
  /\ lastOp' = Op("addIncomeRow", "ok")
  /\ file' = NoFile
  /\ UNCHANGED expenses
  /\ CalcFrame

CalcAddExpenseRow ==
  /\ mounted = "calculator"
  /\ Len(expenses.list) < Len(ExpensesInitialValue) + MaxRows
  /\ CalcSetExpenses(Arr(expenses.list \o <<Row("New Expense")>>))
  /\ lastOp' = Op("addExpenseRow", "ok")
  /\ file' = NoFile
  /\ UNCHANGED incomes
  /\ CalcFrame

\* newIncomes.splice(index, 1)
Splice(list, index) == [i \in 1..(Len(list) - 1) |-> IF i < index THEN list[i] ELSE list[i + 1]]

CalcDeleteIncomeRow ==
  /\ mounted = "calculator"
  /\ \E index \in 1..Len(incomes.list) :
       CalcSetIncomes(Arr(Splice(incomes.list, index)))
  /\ lastOp' = Op("deleteIncomeRow", "ok")
  /\ file' = NoFile
  /\ UNCHANGED expenses
  /\ CalcFrame

\* resetTables calls setIncomes and then setExpenses.
CalcResetTables ==
  /\ mounted = "calculator"
  /\ incomes' = Arr(IncomesInitialValue)
  /\ expenses' = Arr(ExpensesInitialValue)
  /\ ls' = IF SetItemOutcome = "ok"
           THEN [ls EXCEPT !["incomes"] = JSONstringify(Arr(IncomesInitialValue)),
                           !["expenses"] = JSONstringify(Arr(ExpensesInitialValue))]
           ELSE ls
  /\ written' = [written EXCEPT !["incomes"] = SetItemOutcome,
                                !["expenses"] = SetItemOutcome]
  /\ lastOp' = Op("resetTables", "ok")
  /\ file' = NoFile
  /\ CalcFrame

(***************************************************************************)
(* App: the tab switcher and the top-level backup.                         *)
(***************************************************************************)
TabIds == {"projects", "goals", "mood", "lifeEQ", "todos"}

\* The tabs the model clicks: the two localStorage trackers and one of the
\* others.
TabChoices == {"projects", "mood", "todos"}

Str(s) == [kind |-> "string", str |-> s]

\* The value of the activeTab hook after a (re)load.
ReadActiveTab(storage) == ReadStorage(storage, "activeTab", Str("projects"))

\* {activeTab === 'projects' && <ProjectTracker />} ...: the tracker the
\* tab names, or nothing.
Rendered(activeTab) ==
  IF activeTab.kind = "string" /\ activeTab.str \in TabIds THEN activeTab.str ELSE "nothing"

\* What TodoTracker and ProjectTracker show: the hook's value when the
\* tracker is rendered, and what its hook would load when it is not.
ShownTodos(tab, value, storage) ==
  IF tab = "todos" THEN value ELSE ReadStorage(storage, TodoKey, TodoInitialValue)

ShownProjects(tab, value, storage) ==
  IF tab = "projects" THEN value ELSE ReadStorage(storage, ProjectKey, ProjectInitialValue)

\* The components mount: every hook of a rendered tracker reads its item.
Mount(tab, storage) ==
  /\ mounted' = tab
  /\ todoGroups' = IF tab = "todos"
                   THEN ReadStorage(storage, TodoKey, TodoInitialValue) ELSE Unmounted
  /\ projectGoals' = IF tab = "projects"
                     THEN ReadStorage(storage, ProjectKey, ProjectInitialValue) ELSE Unmounted
  /\ crashed' = \/ tab = "todos" /\ ~IsArray(todoGroups')
                \/ tab = "projects" /\ ~IsArray(projectGoals')

\* A variant that writes the hook's initial value, whatever its state is.
WriteActiveTab_Initial(storage, activeTab) ==
  IF SetItemOutcome = "ok"
  THEN [storage EXCEPT !["activeTab"] = JSONstringify(Str("projects"))]
  ELSE storage

\* The effect of App's useLocalStorage: after a render with a new value,
\* setItem('activeTab', JSON.stringify(value)); an exception is logged.
WriteActiveTab(storage, activeTab) ==
  IF SetItemOutcome = "ok" THEN [storage EXCEPT !["activeTab"] = JSONstringify(activeTab)]
  ELSE storage

AppFrame == UNCHANGED <<now, handed, memVars, full, idbVars>>

handleTabClick ==
  /\ mounted \in TabIds
  /\ \E tabId \in TabChoices :
       IF tabId = mounted
       THEN UNCHANGED <<mounted, crashed, lsVars>>
       ELSE /\ ls' = WriteActiveTab(ls, Str(tabId))
            /\ Mount(tabId, ls')
            /\ written' = NothingWritten
  /\ lastOp' = Op("handleTabClick", "ok")
  /\ file' = NoFile
  /\ UNCHANGED <<backup, atExport>>
  /\ AppFrame

\* The user reloads the page: the activeTab hook reads its item, the
\* tracker it names mounts, and the hook's effect writes the value back.
reload ==
  /\ mounted \in TabIds
  /\ LET activeTab == ReadActiveTab(ls)
     IN /\ ls' = WriteActiveTab(ls, activeTab)
        /\ Mount(Rendered(activeTab), ls')
  /\ written' = NothingWritten
  /\ lastOp' = Op("reload", "ok")
  /\ file' = NoFile
  /\ UNCHANGED <<backup, atExport>>
  /\ AppFrame

\* JSON.stringify of a getItem result: the string, or null.
ItemValue(item) ==
  IF item = NoItem THEN Prim("null") ELSE [kind |-> "string", text |-> item]

exportAllProgress ==
  /\ mounted \in TabIds
  /\ backup' = JSONstringify(Obj([k \in ExportKeys |-> ItemValue(ls[k])]))
  /\ atExport' = [todos |-> ShownTodos(mounted, todoGroups, ls),
                  todosStored |-> ls[TodoKey] # NoItem,
                  projects |-> ShownProjects(mounted, projectGoals, ls),
                  projectsStored |-> ls[ProjectKey] # NoItem]
  /\ lastOp' = Op("exportAllProgress", "ok")
  /\ file' = NoFile
  /\ UNCHANGED <<mounted, crashed, lsVars>>
  /\ AppFrame

\* setItem(key, value as string) stores String(value).
ToText(value) ==
  CASE value.kind = "string" -> value.text
    [] value.kind = "number" -> JSONstringify(value)
    [] OTHER -> NotJSON

\* Object.entries visits the members in the order of the file; the model
\* fixes one order of the keys.
KeyOrder ==
  << "activeTab", "projects", "goals", "mood", "lifeEQ", "todos",
     "todoGroups", "projectTrackerGoals", "incomes", "expenses" >>

\* The members of the file that importAllProgress writes: if (value) ...
Entries(importedData) ==
  SelectSeq(KeyOrder, LAMBDA k : k \in DOMAIN importedData.props /\ Truthy(importedData.props[k]))

\* localStorage after the first n of the entries were written.
AfterEntries(importedData, n) ==
  LET e == Entries(importedData)
  IN [k \in Keys |->
        IF \E i \in 1..n : e[i] = k THEN ToText(importedData.props[k]) ELSE ls[k]]

\* reader.onload of importAllProgress with the text of the chosen file.
importAllProgress(text) ==
  LET parsed == JSONparse(text)
      importedData == parsed.value
  IN /\ file' = text
     /\ IF parsed.threw \/ Throws(importedData)
        THEN /\ lastOp' = Op("importAllProgress", "alert")
             /\ UNCHANGED <<mounted, crashed, lsVars>>
        ELSE IF full /\ Len(Entries(importedData)) > 0
        THEN \* the first setItem throws
             /\ lastOp' = Op("importAllProgress", "alert")
             /\ UNCHANGED <<mounted, crashed, lsVars>>
        ELSE \* every entry is written, window.location.reload()
             LET storage == AfterEntries(importedData, Len(Entries(importedData)))
                 activeTab == ReadActiveTab(storage)
             IN /\ ls' = WriteActiveTab(storage, activeTab)
                /\ Mount(Rendered(activeTab), ls')
                /\ written' = NothingWritten
                /\ lastOp' = Op("importAllProgress", "ok")
     /\ UNCHANGED <<backup, atExport>>
     /\ AppFrame

\* A file that names the items of the two localStorage trackers.
TrackerBundle ==
  JSONstringify(Obj([todoGroups |-> ItemValue(JSONstringify(Arr(<<>>))),
                     projectTrackerGoals |-> ItemValue(JSONstringify(Arr(<<>>)))]))

AppFiles == {NotJSON, JSONstringify(Prim("null")), TrackerBundle}

AppImport ==
  /\ mounted \in TabIds
  /\ \E text \in (AppFiles \cup {backup}) \ {NoFile} : importAllProgress(text)

(***************************************************************************)
(* useIndexedDB as MoodTracker and the IndexedDB budget calculator define  *)
(* it: a hook whose load effect depends on [key, initialValue] and whose   *)
(* callers pass a new initialValue in every render, so that the effect     *)
(* runs again after every render.                                          *)
(*                                                                         *)
(* The values are tokens.  The engine serves the open requests of one      *)
(* database in the order they were made, and runs the transactions on one  *)
(* object store in the order they were created.                            *)
(***************************************************************************)
MaxLoads == 3
MaxSets == 2

InitialValue == "initialValue"
SetValues == {"A", "B"}

LoadRequest(n) == [op |-> "load", id |-> n, value |-> Undefined, closed |-> FALSE]
PutRequest(value) == [op |-> "put", id |-> 0, value |-> value, closed |-> FALSE]

\* A render: the cleanup of the last run of the effect closes its
\* connection if the open request has succeeded by then (if (db)
\* db.close()), and the effect runs again and opens the database.
Cleanup(transactions) ==
  [i \in 1..Len(transactions) |->
     IF transactions[i].op = "load" /\ transactions[i].id = loads
     THEN [transactions[i] EXCEPT !.closed = TRUE]
     ELSE transactions[i]]

EffectRuns == IF loads < MaxLoads THEN << LoadRequest(loads + 1) >> ELSE <<>>

IDBFrame ==
  UNCHANGED <<now, mounted, crashed, handed, backup, atExport, memVars, lsVars, full,
              database, reader>>

\* setValue / saveData: setData(newValue), then indexedDB.open whose
\* onsuccess puts newValue; the render that setData causes follows.
setValue ==
  /\ mounted = "hook"
  /\ sets < MaxSets
  /\ \E newValue \in SetValues :
       /\ data' = newValue
       /\ latest' = newValue
       /\ opens' = opens \o << PutRequest(newValue) >> \o EffectRuns
  /\ txs' = Cleanup(txs)
  /\ loads' = loads + Len(EffectRuns)
  /\ sets' = sets + 1
  /\ lastOp' = Op("setValue", "ok")
  /\ file' = NoFile
  /\ UNCHANGED record
  /\ IDBFrame

\* request.onsuccess of the oldest open request: the callback creates its
\* transaction, a readonly one with a get or a readwrite one with a put.
OpenSucceeds ==
  /\ mounted \in {"hook", "moodDB"}
  /\ opens # <<>>
  /\ txs' = Append(txs, Head(opens))
  /\ opens' = Tail(opens)
  /\ lastOp' = Op("request.onsuccess", "ok")
  /\ file' = NoFile
  /\ UNCHANGED <<data, record, loads, sets, latest>>
  /\ IDBFrame

\* getRequest.onsuccess of the oldest transaction: a stored value becomes
\* the in-memory value; without one, initialValue is put in a transaction
\* that is created now, which throws if the connection was closed.
GetSucceeds ==
  /\ mounted = "hook"
  /\ txs # <<>> /\ Head(txs).op = "load"
  /\ IF record # Undefined
     THEN /\ data' = record
          /\ txs' = Cleanup(Tail(txs))
          /\ opens' = opens \o EffectRuns
          /\ loads' = loads + Len(EffectRuns)
          /\ lastOp' = Op("getRequest.onsuccess", "ok")
     ELSE IF Head(txs).closed
     THEN /\ txs' = Tail(txs)
          /\ lastOp' = Op("getRequest.onsuccess", "uncaught")
          /\ UNCHANGED <<data, opens, loads>>
     ELSE /\ txs' = Append(Tail(txs), PutRequest(InitialValue))
          /\ lastOp' = Op("getRequest.onsuccess", "ok")
          /\ UNCHANGED <<data, opens, loads>>
  /\ file' = NoFile
  /\ UNCHANGED <<record, sets, latest>>
  /\ IDBFrame

\* The oldest transaction is a put and completes.
PutCompletes ==
  /\ mounted \in {"hook", "moodDB"}
  /\ txs # <<>> /\ Head(txs).op = "put"
  /\ record' = Head(txs).value
  /\ txs' = Tail(txs)
  /\ lastOp' = Op("transaction.oncomplete", "ok")
  /\ file' = NoFile
  /\ UNCHANGED <<data, opens, loads, sets, latest>>
  /\ IDBFrame

(***************************************************************************)
(* MoodTracker on its hook: the in-memory value is the entries list, the   *)
(* record under 'moodEntriesData' is a list or undefined, and the requests *)
(* and transactions are those of the hook above.                           *)
(***************************************************************************)
NoRecord == Prim("undefined")

\* The entry an earlier visit has stored.
StoredEntries == Arr(<< [id |-> 50, mood |-> 1, notes |-> <<>>] >>)

\* addEntry: setEntries([newEntry, ...entries]), which is setData and an
\* open request whose onsuccess puts the new list; the render follows.
MoodSaveData ==
  /\ mounted = "moodDB"
  /\ sets < MaxSets
  /\ Len(entries.list) < MaxEntries
  /\ LET newEntries == Arr(<< [id |-> DateNow, mood |-> 5, notes |-> <<>>] >> \o entries.list)
     IN /\ entries' = newEntries
        /\ opens' = opens \o << PutRequest(newEntries) >> \o EffectRuns
  /\ txs' = Cleanup(txs)
  /\ loads' = loads + Len(EffectRuns)
  /\ sets' = sets + 1
  /\ lastOp' = Op("addEntry", "ok")
  /\ file' = NoFile
  /\ UNCHANGED <<now, mounted, crashed, handed, backup, atExport, goals, items, categories,
                 incomes, expenses, lsVars, full, data, record, latest, database, reader>>

\* getRequest.onsuccess of the oldest transaction: the stored list becomes
\* the in-memory list and the component renders; without a record the
\* empty list is put.
MoodGetSucceeds ==
  /\ mounted = "moodDB"
  /\ txs # <<>> /\ Head(txs).op = "load"
  /\ IF record # NoRecord
     THEN /\ entries' = record
          /\ txs' = Cleanup(Tail(txs))
          /\ opens' = opens \o EffectRuns
          /\ loads' = loads + Len(EffectRuns)
          /\ lastOp' = Op("getRequest.onsuccess", "ok")
     ELSE IF Head(txs).closed
     THEN /\ txs' = Tail(txs)
          /\ lastOp' = Op("getRequest.onsuccess", "uncaught")
          /\ UNCHANGED <<entries, opens, loads>>
     ELSE /\ txs' = Append(Tail(txs), PutRequest(Arr(<<>>)))
          /\ lastOp' = Op("getRequest.onsuccess", "ok")
          /\ UNCHANGED <<entries, opens, loads>>
  /\ file' = NoFile
  /\ UNCHANGED <<now, mounted, crashed, handed, backup, atExport, goals, items, categories,
                 incomes, expenses, lsVars, full, data, record, sets, latest, database, reader>>

(***************************************************************************)
(* The object stores of one IndexedDB database, shared by the two hooks of *)
(* a component.  WishlistTracker and the budget calculator of version 1    *)
(* open the database in the hook itself; the budget calculator of version  *)
(* 4 calls initDB first.  Open requests are served in the order they were  *)
(* made; the transaction of a callback runs with the callback.             *)
(***************************************************************************)
WishlistDBVersion == 1
BudgetDBVersion == 1
InitDBVersion == 4

AllStores == {"wishlist", "wishlist_categories", "incomes", "expenses"}
NoStore == "no object store"
NoDatabase == [version |-> 0, stores |-> [name \in AllStores |-> NoStore]]

StoreViews == {"wishlistDB", "budgetDB", "initDB"}

\* The store names the component passes to its two hooks.
StoreNames(view) ==
  IF view = "wishlistDB" THEN {"wishlist", "wishlist_categories"}
  ELSE {"incomes", "expenses"}

DBVersion(view) ==
  CASE view = "wishlistDB" -> WishlistDBVersion
    [] view = "budgetDB" -> BudgetDBVersion
    [] OTHER -> InitDBVersion

\* request.onupgradeneeded of the hook's own open request: it creates the
\* store of this hook, and no other, if it is missing.
HookUpgrade(db, storeName, version) ==
  [version |-> version,
   stores |-> [db.stores EXCEPT ![storeName] =
                 IF @ = NoStore THEN Undefined ELSE @]]

\* request.onupgradeneeded of initDB: it deletes the two stores if they are
\* there and creates both, empty.
InitDBUpgrade(db, version) ==
  [version |-> version,
   stores |-> [name \in AllStores |->
                 IF name \in {"incomes", "expenses"} THEN Undefined
                 ELSE db.stores[name]]]

\* An open request without an upgrade handler only raises the version.
Upgraded(db, request, version) ==
  IF db.version >= version THEN db
  ELSE CASE request.op = "load" -> HookUpgrade(db, request.store, version)
         [] request.op = "init" -> InitDBUpgrade(db, version)
         [] OTHER -> [db EXCEPT !.version = version]

StoreRequest(op, storeName, value) == [op |-> op, store |-> storeName, value |-> value]

\* The effect of each of the two hooks on the first render.
FirstRender(view) ==
  IF view = "initDB"
  THEN << StoreRequest("init", "incomes", Undefined),
          StoreRequest("init", "expenses", Undefined) >>
  ELSE IF view = "budgetDB"
  THEN << StoreRequest("load", "incomes", Undefined),
          StoreRequest("load", "expenses", Undefined) >>
  ELSE << StoreRequest("load", "wishlist", Undefined),
          StoreRequest("load", "wishlist_categories", Undefined) >>

\* What earlier visits can have left behind.  The stores of initDB may be
\* at any version up to its own with any of the two stores.
PriorDatabases(view) ==
  IF view = "initDB"
  THEN { NoDatabase } \cup
       { [version |-> v,
          stores |-> [name \in AllStores |->
                        IF name \in present THEN "stored" ELSE NoStore]] :
           v \in 1..InitDBVersion, present \in SUBSET {"incomes", "expenses"} }
  ELSE { NoDatabase }

StoresFrame ==
  UNCHANGED <<now, mounted, crashed, handed, backup, atExport, memVars, lsVars, full,
              record, txs, loads, reader>>

\* The setter of one of the two hooks: setData(newValue), then an open
\* request whose onsuccess puts newValue into the hook's store.
StoreSetValue ==
  /\ mounted \in StoreViews
  /\ sets < MaxSets
  /\ \E storeName \in StoreNames(mounted), newValue \in SetValues :
       /\ data' = [data EXCEPT ![storeName] = newValue]
       /\ latest' = [latest EXCEPT ![storeName] = newValue]
       /\ opens' = Append(opens, StoreRequest("put", storeName, newValue))
  /\ sets' = sets + 1
  /\ lastOp' = Op("setValue", "ok")
  /\ file' = NoFile
  /\ UNCHANGED database
  /\ StoresFrame

\* request.onsuccess of the oldest open request, after its upgrade if the
\* database is older than the version asked for.  db.transaction(storeName)
\* throws when the database has no such store.
StoreOpenSucceeds ==
  /\ mounted \in StoreViews
  /\ opens # <<>>
  /\ LET request == Head(opens)
         db == Upgraded(database, request, DBVersion(mounted))
         stored == db.stores[request.store]
     IN  CASE request.op = "init" ->
                /\ database' = db
                /\ opens' = Append(Tail(opens), StoreRequest("loadData", request.store, Undefined))
                /\ lastOp' = Op("initDB", "ok")
                /\ UNCHANGED data
           [] stored = NoStore ->
                /\ database' = db
                /\ opens' = Tail(opens)
                /\ lastOp' = Op(request.op, "uncaught")
                /\ UNCHANGED data
           [] request.op = "put" ->
                /\ database' = [db EXCEPT !.stores[request.store] = request.value]
                /\ opens' = Tail(opens)
                /\ lastOp' = Op("put", "ok")
                /\ UNCHANGED data
           [] request.op = "load" /\ stored = Undefined ->
                /\ database' = [db EXCEPT !.stores[request.store] = InitialValue]
                /\ opens' = Tail(opens)
                /\ lastOp' = Op("load", "ok")
                /\ UNCHANGED data
           [] request.op = "loadData" /\ stored = Undefined ->
                /\ database' = db
                /\ opens' = Append(Tail(opens), StoreRequest("put", request.store, InitialValue))
                /\ lastOp' = Op("loadData", "ok")
                /\ UNCHANGED data
           [] OTHER ->
                /\ database' = db
                /\ opens' = Tail(opens)
                /\ data' = [data EXCEPT ![request.store] = stored]
                /\ lastOp' = Op(request.op, "ok")
  /\ file' = NoFile
  /\ UNCHANGED <<sets, latest>>
  /\ StoresFrame

\* The hook at rest, as it is in the specifications of the other parts.
NoHook ==
  /\ data = InitialValue
  /\ record = Undefined
  /\ opens = <<>>
  /\ txs = <<>>
  /\ loads = 0
  /\ sets = 0
  /\ latest = Undefined
  /\ database = NoDatabase
  /\ reader = NoRead

(***************************************************************************)
(* One tracker view is rendered; its handlers run one at a time.           *)
(***************************************************************************)
Views == {"goals", "mood", "wishlist", "budget"}

NoExport == [none |-> TRUE]

Init ==
  /\ now = 0
  /\ lastOp = Op("init", "ok")
  /\ mounted \in Views
  /\ crashed = FALSE
  /\ file = NoFile
  /\ handed = <<>>
  /\ backup = NoFile
  /\ atExport = NoExport
  /\ goals = GoalsInitialValue
  /\ entries = Arr(<<>>)
  /\ items = <<>>
  /\ categories = CategoriesInitialValue
  /\ incomes = Arr(IncomesInitialValue)
  /\ expenses = Arr(ExpensesInitialValue)
  /\ ls = EmptyStorage
  /\ written = NothingWritten
  /\ todoGroups = Unmounted
  /\ projectGoals = Unmounted
  /\ full = FALSE
  /\ NoHook

\* The handlers that edit and import.
Next ==
  \/ Tick
  \/ GoalsAddNewGoal
  \/ GoalsDeleteGoal
  \/ GoalsAddTask
  \/ GoalsToggleTask
  \/ GoalsDeleteTask
  \/ GoalsImport
  \/ addEntry
  \/ MoodDeleteEntry
  \/ MoodImport
  \/ handleSubmit
  \/ deleteItem
  \/ WishImport
  \/ addIncomeRow
  \/ addExpenseRow
  \/ resetTables
  \/ BudgetImport

Spec == Init /\ [][Next]_vars

\* Backups: the export handlers, the import handlers and the edits that
\* move a tracker away from the exported state.
NextBackup ==
  \/ Tick
  \/ GoalsAddNewGoal
  \/ GoalsDeleteGoal
  \/ GoalsToggleTask
  \/ GoalsExport
  \/ GoalsImport
  \/ addEntry
  \/ MoodDeleteEntry
  \/ MoodExport
  \/ MoodImport
  \/ handleSubmit
  \/ deleteItem
  \/ WishExport
  \/ WishImport
  \/ addIncomeRow
  \/ addExpenseRow
  \/ BudgetExport
  \/ BudgetImport

SpecBackup == Init /\ [][NextBackup]_vars

(***************************************************************************)
(* The localStorage trackers, each rendered on its own.                    *)
(***************************************************************************)
InitStorage(view) ==
  /\ now = 0
  /\ lastOp = Op("init", "ok")
  /\ mounted = view
  /\ crashed = FALSE
  /\ file = NoFile
  /\ handed = <<>>
  /\ backup = NoFile
  /\ atExport = NoExport
  /\ goals = GoalsInitialValue
  /\ entries = Arr(<<>>)
  /\ items = <<>>
  /\ categories = CategoriesInitialValue
  /\ incomes = Arr(IncomesInitialValue)
  /\ expenses = Arr(ExpensesInitialValue)
  /\ ls = IF view \in TabIds
          THEN [EmptyStorage EXCEPT !["activeTab"] = JSONstringify(Str(view))]
          ELSE EmptyStorage
  /\ written = NothingWritten
  /\ todoGroups = IF view = "todos" THEN TodoInitialValue ELSE Unmounted
  /\ projectGoals = IF view = "projects" THEN ProjectInitialValue ELSE Unmounted
  /\ full = FALSE
  /\ NoHook

InitLS == \E view \in {"todos", "projects", "calculator"} : InitStorage(view)

NextLS ==
  \/ Tick
  \/ addNewGroup
  \/ deleteGroup
  \/ addTodo
  \/ toggleTodo
  \/ deleteTodo
  \/ ProjectAddNewGoal
  \/ ProjectDeleteGoal
  \/ ProjectImageUpload
  \/ CalcAddIncomeRow
  \/ CalcAddExpenseRow
  \/ CalcDeleteIncomeRow
  \/ CalcResetTables
  \/ StorageFills
  \/ StorageClears

SpecLS == InitLS /\ [][NextLS]_vars

(***************************************************************************)
(* App with its tabs: the top-level backup, and the edits that move the    *)
(* trackers away from the exported state.                                  *)
(***************************************************************************)
InitApp == InitStorage("projects")

NextApp ==
  \/ Tick
  \/ handleTabClick
  \/ exportAllProgress
  \/ AppImport
  \/ addNewGroup
  \/ deleteGroup
  \/ ProjectAddNewGoal

SpecApp == InitApp /\ [][NextApp]_vars

(***************************************************************************)
(* The trackers behind the tabs of App, with a store that can be full.     *)
(***************************************************************************)
NextTabs ==
  \/ Tick
  \/ handleTabClick
  \/ AppImport
  \/ addNewGroup
  \/ deleteGroup
  \/ ProjectAddNewGoal
  \/ ProjectImageUpload
  \/ StorageFills
  \/ StorageClears
  \/ reload

SpecTabs == InitApp /\ [][NextTabs]_vars

(***************************************************************************)
(* The hook alone: the component has rendered once, the load effect has    *)
(* made its open request, and the store holds a value of an earlier visit  *)
(* or nothing.                                                             *)
(***************************************************************************)
InitIDB ==
  /\ now = 0
  /\ lastOp = Op("init", "ok")
  /\ mounted = "hook"
  /\ crashed = FALSE
  /\ file = NoFile
  /\ handed = <<>>
  /\ backup = NoFile
  /\ atExport = NoExport
  /\ goals = GoalsInitialValue
  /\ entries = Arr(<<>>)
  /\ items = <<>>
  /\ categories = CategoriesInitialValue
  /\ incomes = Arr(IncomesInitialValue)
  /\ expenses = Arr(ExpensesInitialValue)
  /\ ls = EmptyStorage
  /\ written = NothingWritten
  /\ todoGroups = Unmounted
  /\ projectGoals = Unmounted
  /\ full = FALSE
  /\ data = InitialValue
  /\ record \in {Undefined, "stored"}
  /\ opens = << LoadRequest(1) >>
  /\ txs = <<>>
  /\ loads = 1
  /\ sets = 0
  /\ latest = Undefined
  /\ database = NoDatabase
  /\ reader = NoRead

NextIDB ==
  \/ setValue
  \/ OpenSucceeds
  \/ GetSucceeds
  \/ PutCompletes

SpecIDB == InitIDB /\ [][NextIDB]_vars

\* A component with two hooks on one database is rendered for the first
\* time in this visit.
InitStores ==
  /\ now = 0
  /\ lastOp = Op("init", "ok")
  /\ mounted \in StoreViews
  /\ crashed = FALSE
  /\ file = NoFile
  /\ handed = <<>>
  /\ backup = NoFile
  /\ atExport = NoExport
  /\ goals = GoalsInitialValue
  /\ entries = Arr(<<>>)
  /\ items = <<>>
  /\ categories = CategoriesInitialValue
  /\ incomes = Arr(IncomesInitialValue)
  /\ expenses = Arr(ExpensesInitialValue)
  /\ ls = EmptyStorage
  /\ written = NothingWritten
  /\ todoGroups = Unmounted
  /\ projectGoals = Unmounted
  /\ full = FALSE
  /\ database \in PriorDatabases(mounted)
  /\ reader = NoRead
  /\ data = [name \in StoreNames(mounted) |-> InitialValue]
  /\ latest = [name \in StoreNames(mounted) |-> Undefined]
  /\ opens = FirstRender(mounted)
  /\ record = Undefined
  /\ txs = <<>>
  /\ loads = 0
  /\ sets = 0

NextStores ==
  \/ StoreSetValue
  \/ StoreOpenSucceeds

SpecStores == InitStores /\ [][NextStores]_vars

\* MoodTracker is opened on a browser that holds an entry of an earlier
\* visit; the load effect has opened the database.
InitMoodDB ==
  /\ now = 0
  /\ lastOp = Op("init", "ok")
  /\ mounted = "moodDB"
  /\ crashed = FALSE
  /\ file = NoFile
  /\ handed = <<>>
  /\ backup = NoFile
  /\ atExport = NoExport
  /\ goals = GoalsInitialValue
  /\ entries = Arr(<<>>)
  /\ items = <<>>
  /\ categories = CategoriesInitialValue
  /\ incomes = Arr(IncomesInitialValue)
  /\ expenses = Arr(ExpensesInitialValue)
  /\ ls = EmptyStorage
  /\ written = NothingWritten
  /\ todoGroups = Unmounted
  /\ projectGoals = Unmounted
  /\ full = FALSE
  /\ data = InitialValue
  /\ record = StoredEntries
  /\ opens = << LoadRequest(1) >>
  /\ txs = <<>>
  /\ loads = 1
  /\ sets = 0
  /\ latest = Undefined
  /\ database = NoDatabase
  /\ reader = NoRead

NextMoodDB ==
  \/ Tick
  \/ MoodSaveData
  \/ OpenSucceeds
  \/ MoodGetSucceeds
  \/ PutCompletes

SpecMoodDB == InitMoodDB /\ [][NextMoodDB]_vars

\* ProjectTracker with image reads that end after other handlers have run.
InitUpload == InitStorage("projects")

NextUpload ==
  \/ Tick
  \/ ProjectAddNewGoal
  \/ ProjectDeleteGoal
  \/ ProjectReadImage
  \/ ProjectImageLoaded

SpecUpload == InitUpload /\ [][NextUpload]_vars

\* GoalsTracker with three goals of earlier visits, archived or not.
StoredGoal(id, archived) ==
  [id |-> id, name |-> "New Goal", status |-> "Not Started", image |-> Null,
   milestones |-> <<>>, order |-> id, archived |-> archived]

InitDrop ==
  /\ now = 0
  /\ lastOp = Op("init", "ok")
  /\ mounted = "goals"
  /\ crashed = FALSE
  /\ file = NoFile
  /\ handed = <<>>
  /\ backup = NoFile
  /\ atExport = NoExport
  /\ \E third \in BOOLEAN :
       goals = << StoredGoal(1, FALSE), StoredGoal(2, FALSE), StoredGoal(3, third) >>
  /\ entries = Arr(<<>>)
  /\ items = <<>>
  /\ categories = CategoriesInitialValue
  /\ incomes = Arr(IncomesInitialValue)
  /\ expenses = Arr(ExpensesInitialValue)
  /\ ls = EmptyStorage
  /\ written = NothingWritten
  /\ todoGroups = Unmounted
  /\ projectGoals = Unmounted
  /\ full = FALSE
  /\ NoHook

NextDrop ==
  \/ Tick
  \/ GoalsAddNewGoal
  \/ GoalsDeleteGoal
  \/ toggleArchiveGoal
  \/ handleDrop

SpecDrop == InitDrop /\ [][NextDrop]_vars

\* Groups as earlier visits of TodoTracker leave them: a group of two
\* todos in the order of their priority ranks, and an empty group.
StoredTodo(id, priority) ==
  [id |-> id, text |-> "task", completed |-> FALSE, notes |-> <<>>,
   priority |-> priority, archived |-> FALSE]

StoredTodoGroups ==
  { Arr(<< [id |-> 1, todos |-> << StoredTodo(11, pair[1]), StoredTodo(12, pair[2]) >>],
           [id |-> 2, todos |-> <<>>] >>) :
      pair \in { q \in PriorityChoices \X PriorityChoices :
                   getPriorityRank(q[2]) <= getPriorityRank(q[1]) } }

\* One of the trackers that keep lists of records is rendered, and the
\* store takes every write.
ListViews == {"goals", "mood", "wishlist", "todos"}

InitLists ==
  /\ now = 0
  /\ lastOp = Op("init", "ok")
  /\ mounted \in ListViews
  /\ crashed = FALSE
  /\ file = NoFile
  /\ handed = <<>>
  /\ backup = NoFile
  /\ atExport = NoExport
  /\ goals = GoalsInitialValue
  /\ entries = Arr(<<>>)
  /\ items = <<>>
  /\ categories = CategoriesInitialValue
  /\ incomes = Arr(IncomesInitialValue)
  /\ expenses = Arr(ExpensesInitialValue)
  /\ IF mounted = "todos"
     THEN /\ todoGroups \in StoredTodoGroups
          /\ ls = [EmptyStorage EXCEPT ![TodoKey] = JSONstringify(todoGroups)]
     ELSE /\ todoGroups = Unmounted
          /\ ls = EmptyStorage
  /\ written = NothingWritten
  /\ projectGoals = Unmounted
  /\ full = FALSE
  /\ NoHook

NextLists ==
  \/ Tick
  \/ GoalsAddNewGoal
  \/ GoalsDeleteGoal
  \/ addEntry
  \/ MoodDeleteEntry
  \/ handleSubmit
  \/ deleteItem
  \/ addTodo
  \/ toggleTodo
  \/ deleteTodo
  \/ archiveTodo
  \/ unarchiveTodo
  \/ setPriority
  \/ addNote
  \/ deleteNote

SpecLists == InitLists /\ [][NextLists]_vars

\* One of the two builds of WishlistTracker is rendered.
InitCategories ==
  /\ now = 0
  /\ lastOp = Op("init", "ok")
  /\ mounted \in {"wishlist", "wishlist_part_000"}
  /\ crashed = FALSE
  /\ file = NoFile
  /\ handed = <<>>
  /\ backup = NoFile
  /\ atExport = NoExport
  /\ goals = GoalsInitialValue
  /\ entries = Arr(<<>>)
  /\ items = <<>>
  /\ categories = CategoriesInitialValue
  /\ incomes = Arr(IncomesInitialValue)
  /\ expenses = Arr(ExpensesInitialValue)
  /\ ls = EmptyStorage
  /\ written = NothingWritten
  /\ todoGroups = Unmounted
  /\ projectGoals = Unmounted
  /\ full = FALSE
  /\ NoHook

NextCategories ==
  \/ Tick
  \/ handleSubmit
  \/ deleteItem
  \/ handleAddCategory
  \/ Part000HandleAddCategory

SpecCategories == InitCategories /\ [][NextCategories]_vars

(***************************************************************************)
(* Claims about the trackers' lists, imports and backups.                  *)
(***************************************************************************)
ImportOps == {"importGoals", "importMood", "importWishlist", "importBudget"}

\* The step is an import handler that has just read a file.
Imported == lastOp'.op \in ImportOps /\ file' # NoFile

\* The shallow shape check: the text is JSON and the list fields the
\* mounted tracker expects are arrays.
ShapeOK(view, text) ==
  /\ text.ok
  /\ CASE view = "goals" -> IsArray(Prop(text.doc, "goals"))
       [] view = "wishlist" -> /\ IsArray(Prop(text.doc, "items"))
                               /\ IsArray(Prop(text.doc, "categories"))
       [] view = "budget" -> /\ IsArray(Prop(text.doc, "incomes"))
                             /\ IsArray(Prop(text.doc, "expenses"))
       [] view = "mood" -> IsArray(text.doc)

\* C1: in every reachable state every goal's status is the one derived from
\* its milestones, status = updateGoalStatus(goal).
C1_StatusDerived ==
  \A i \in 1..Len(goals) : goals[i].status = updateGoalStatus(goals[i])

\* C4: an import that accepts a file leaves exactly the file's lists in
\* memory, and hands exactly those lists to the persistence hook.
C4_ImportOverwrites ==
  [][ /\ (Imported /\ lastOp' = Op("importGoals", "ok")) =>
           /\ goals' = Prop(file'.doc, "goals").list
           /\ handed' = << <<"projectGoals", Prop(file'.doc, "goals").list>> >>
      /\ (Imported /\ lastOp' = Op("importWishlist", "ok")) =>
           /\ items' = Map(Prop(file'.doc, "items").list, ItemFromJSON)
           /\ categories' = Prop(file'.doc, "categories").list
           /\ handed' = << <<"wishlist", items'>>, <<"wishlist_categories", categories'>> >>
    ]_vars

\* C4 witness: a file with one goal has replaced the goals list.
C4_Witness ==
  /\ lastOp = Op("importGoals", "ok")
  /\ file.ok
  /\ Len(goals) = 1 /\ goals[1].id = 50
  /\ goals = Prop(file.doc, "goals").list

\* C5: an import of a file that is not JSON, or whose expected list fields
\* are not arrays, notifies the user and changes neither the in-memory
\* lists nor what is handed to the store.
C5_MalformedImportRejected ==
  [][ (Imported /\ ~ShapeOK(mounted, file')) =>
        /\ lastOp'.outcome = "alert"
        /\ UNCHANGED <<memVars, handed>> ]_vars

\* C6: importing the file that export wrote in state S, from any later
\* state of the tracker, sets the tracker's in-memory lists to S.
C6_BackupRestores ==
  [][ (Imported /\ backup.ok /\ file' = backup) =>
        /\ lastOp'.outcome = "ok"
        /\ mounted = "goals" => goals' = atExport.goals
        /\ mounted = "mood" => entries' = Arr(atExport.entries)
        /\ mounted = "wishlist" => /\ items' = atExport.items
                                    /\ categories' = atExport.categories
        /\ mounted = "budget" => /\ incomes' = Arr(atExport.incomes)
                                  /\ expenses' = Arr(atExport.expenses) ]_vars

\* C6 witness: the wishlist has been restored from its own backup, which
\* holds an item without an image next to one with an image.
C6_Witness ==
  /\ mounted = "wishlist"
  /\ lastOp = Op("importWishlist", "ok")
  /\ backup.ok /\ file = backup
  /\ items = atExport.items
  /\ \E i, j \in 1..Len(items) : items[i].image = Undefined /\ items[j].image # Undefined

\* C9 (imports): a malformed import file ends in an alert; no handler ends
\* in an uncaught error.
C9_NoUncaughtError ==
  /\ lastOp.outcome # "uncaught"
  /\ ~crashed

\* C10: no two records of one list share an id.
UniqueIds(list) == \A i, j \in 1..Len(list) : list[i].id = list[j].id => i = j

C10_UniqueIds ==
  /\ UniqueIds(goals)
  /\ \A i \in 1..Len(goals) : UniqueIds(goals[i].milestones)
  /\ UniqueIds(entries.list)
  /\ UniqueIds(items)

(***************************************************************************)
(* Claims about localStorage and the top-level backup.                     *)
(***************************************************************************)
\* C2: when the last write of a localStorage hook of the rendered tracker
\* did not fail, the item under the hook's key is the JSON text of the
\* hook's in-memory value (todoGroups; incomes and expenses).
C2_Mirrored ==
  /\ (mounted = "todos" /\ written["todoGroups"] = "ok") =>
        ls["todoGroups"] = JSONstringify(todoGroups)
  /\ (mounted = "calculator" /\ written["incomes"] = "ok") =>
        ls["incomes"] = JSONstringify(incomes)
  /\ (mounted = "calculator" /\ written["expenses"] = "ok") =>
        ls["expenses"] = JSONstringify(expenses)

\* C2 witness: TodoTracker holds two groups and a task, and its last write
\* succeeded after an earlier one had failed.
C2_Witness ==
  /\ mounted = "todos"
  /\ written["todoGroups"] = "ok"
  /\ Len(todoGroups.list) = 2
  /\ \E i \in 1..2 : Len(todoGroups.list[i].todos) > 0
  /\ ls["todoGroups"] = JSONstringify(todoGroups)

\* C7: importAllProgress with the file that exportAllProgress wrote, and
\* the reload, make TodoTracker and ProjectTracker show what they showed
\* at the export (for a tracker that had persisted its list by then).
C7_BundleRestores ==
  [][ ( /\ lastOp' = Op("importAllProgress", "ok")
        /\ backup.ok /\ file' = backup ) =>
        /\ atExport.todosStored =>
             ShownTodos(mounted', todoGroups', ls') = atExport.todos
        /\ atExport.projectsStored =>
             ShownProjects(mounted', projectGoals', ls') = atExport.projects ]_vars

\* The keys a tracker's hooks are given.
OwnKeys(view) ==
  CASE view = "todos" -> {"todoGroups"}
    [] view = "projects" -> {"projectTrackerGoals"}
    [] view = "calculator" -> {"incomes", "expenses"}
    [] OTHER -> {}

AppOps == {"handleTabClick", "importAllProgress", "exportAllProgress", "reload"}

Settled ==
  /\ \A i \in 1..Len(opens) : opens[i].op # "put"
  /\ \A i \in 1..Len(txs) : txs[i].op # "put"
  /\ record # Undefined \/ (opens = <<>> /\ txs = <<>>)

\* C3: after setter calls, once no write is outstanding, the stored value
\* is the value the last setter call made the in-memory value.
C3_StoreHoldsLatest ==
  (sets > 0 /\ Settled) => record = latest

(***************************************************************************)
(* Claims about single handlers.                                           *)
(***************************************************************************)
\* C11: the add-task button changes one goal only, and changes it by
\* appending one uncompleted milestone to its milestones.
C11_AddTaskFrame ==
  [][ (lastOp'.op = "addTask" /\ goals' # goals) =>
        /\ Len(goals') = Len(goals)
        /\ \E i \in 1..Len(goals) :
             /\ \A j \in 1..Len(goals) : j # i => goals'[j] = goals[j]
             /\ Len(goals'[i].milestones) = Len(goals[i].milestones) + 1
             /\ ~Last(goals'[i].milestones).completed
             /\ goals'[i] = [goals[i] EXCEPT !.milestones =
                               Append(goals[i].milestones, Last(goals'[i].milestones))]
    ]_vars

(***************************************************************************)
(* Claims about the object stores of a component's database.               *)
(***************************************************************************)
HookViews == {"wishlistDB", "budgetDB"}

\* C12: once the open requests of the two hooks of a component have been
\* served, every store name passed to useIndexedDB names an object store of
\* the database, and the value a setter stored last is the value of the
\* store's record.
C12_EveryStoreExists ==
  (mounted \in HookViews /\ opens = <<>>) =>
     \A storeName \in StoreNames(mounted) :
        /\ database.stores[storeName] # NoStore
        /\ latest[storeName] # Undefined =>
              database.stores[storeName] = latest[storeName]

\* C19: when initDB has resolved for both hooks, the database has the two
\* stores 'incomes' and 'expenses', whatever it was before, and no load or
\* save that follows fails for a missing store.
C19_StoresInPlace ==
  (mounted = "initDB" /\ \A i \in 1..Len(opens) : opens[i].op # "init") =>
     /\ \A storeName \in {"incomes", "expenses"} : database.stores[storeName] # NoStore
     /\ lastOp.outcome # "uncaught"

(***************************************************************************)
(* Claims about the active tab.                                            *)
(***************************************************************************)
\* The step is a run of the handler op, not a step of the clock or of the
\* store.
Handler(op) == lastOp'.op = op /\ now' = now /\ full' = full

Ids(list) == {list[i].id : i \in 1..Len(list)}

WithoutId(list, id) == SelectSeq(list, LAMBDA r : r.id # id)

Sorted(todos) ==
  \A a, b \in 1..Len(todos) :
     a < b => getPriorityRank(todos[a].priority) >= getPriorityRank(todos[b].priority)

\* Two todos that have the same priority after the step are in the order
\* they were in before it.
OrderKept(old, new) ==
  (UniqueIds(old) /\ UniqueIds(new)) =>
     \A a, b \in 1..Len(old) : \A c, d \in 1..Len(new) :
        ( /\ a < b
          /\ new[c].id = old[a].id /\ new[d].id = old[b].id
          /\ new[c].priority = new[d].priority ) => c < d

ProjectOps == {"addNewProject", "deleteProject", "uploadProjectImage"}

ProjectHandler ==
  /\ mounted = "projects" /\ IsArray(projectGoals)
  /\ lastOp'.op \in ProjectOps /\ now' = now /\ full' = full

IsNewGoal(g, length) ==
  /\ g.milestones = <<>> /\ g.order = length + 1
  /\ ~g.archived /\ ~g.favorite /\ g.image = NoImage

Added ==
  /\ Len(projectGoals'.list) = Len(projectGoals.list) + 1
  /\ SubSeq(projectGoals'.list, 1, Len(projectGoals.list)) = projectGoals.list
  /\ IsNewGoal(Last(projectGoals'.list), Len(projectGoals.list))

Rejected == lastOp'.outcome = "alert" /\ projectGoals' = projectGoals /\ ls' = ls

AddNewGoalStep ==
  /\ mounted = "projects" /\ IsArray(projectGoals)
  /\ lastOp'.op = "addNewProject" /\ now' = now /\ full' = full
  /\ Len(projectGoals.list) < MaxProjects

UploadStep ==
  /\ mounted = "projects" /\ IsArray(projectGoals)
  /\ lastOp'.op = "uploadProjectImage" /\ now' = now /\ full' = full

C18_LoadsOnce == sets = 0 => loads <= 1

(***************************************************************************)
(* Claims about the categories of the wishlist.                            *)
(***************************************************************************)
\* C20: after any sequence of handleAddCategory calls no two categories
\* have the same id.
C20_DistinctCategoryIds == UniqueIds(categories)

(***************************************************************************)
(* Claims about setter calls that race with the load.                      *)
(***************************************************************************)
Has(value, id) == \E i \in 1..Len(value.list) : value.list[i].id = id

\* No write is outstanding: no open request or transaction that puts.
NoWritePending ==
  /\ \A i \in 1..Len(opens) : opens[i].op # "put"
  /\ \A i \in 1..Len(txs) : txs[i].op # "put"

\* C21: when every write has completed, the store still holds the entry
\* that it held when the page was opened.
C21_StoredEntryKept ==
  (mounted = "moodDB" /\ NoWritePending) => (record # NoRecord /\ Has(record, 50))

\* C22: an entry that is in the in-memory list stays in it, whatever load
\* completes.
C22_AddedEntryStays ==
  [][ mounted = "moodDB" =>
        \A i \in 1..Len(entries.list) :
           entries.list[i].id >= 100 => Has(entries', entries.list[i].id)
    ]_vars

(***************************************************************************)
(* Claims about image uploads and drag and drop.                           *)
(***************************************************************************)
\* C23: when the read of an image ends, the goals are the goals of that
\* moment with the image of the targeted goal set: no goal is added,
\* removed or changed in another field.
C23_UploadKeepsEdits ==
  [][ (reader.pending /\ ~reader'.pending /\ mounted = "projects") =>
        /\ Len(projectGoals'.list) = Len(projectGoals.list)
        /\ \A i \in 1..Len(projectGoals.list) :
             /\ projectGoals'.list[i] =
                  [projectGoals.list[i] EXCEPT !.image = projectGoals'.list[i].image]
             /\ projectGoals.list[i].id # reader.goalId =>
                  projectGoals'.list[i].image = projectGoals.list[i].image
    ]_vars


\* A goal without its order field, which a drop renumbers.
IgnoreOrder(g) == [g EXCEPT !.order = 0]

\* How many goals of the list are the goal g, the order field aside.
Count(list, g) ==
  Cardinality({k \in 1..Len(list) : IgnoreOrder(list[k]) = IgnoreOrder(g)})

\* The index the goal at position k of the list has among the active goals.
ActiveIndex(list, k) == Cardinality({j \in 1..k : ~list[j].archived})

\* What a drop of the card at position d on the card at position t has to
\* make of the goals list.
Reordered(old, new, d, t) ==
  LET n == Len(SelectSeq(old, LAMBDA g : ~g.archived))
  IN /\ Len(new) = Len(old)
     /\ \A k \in 1..Len(old) : Count(new, old[k]) = Count(old, old[k])
     /\ IgnoreOrder(new[ActiveIndex(old, t)]) = IgnoreOrder(old[d])
     /\ \A k \in 1..n : ~new[k].archived /\ new[k].order = k
     /\ SubSeq(new, n + 1, Len(new)) = SelectSeq(old, LAMBDA g : g.archived)

\* C24: handleDrop reorders without losing data: when goal A is dropped on
\* a different active goal B, the new goals list is a permutation of the
\* old one, A occupies the index B had among the active goals, the active
\* goals come first with order fields 1..n in list order, and the archived
\* goals follow with all their fields unchanged; a drop with no drag in
\* progress, onto the dragged goal itself, or where A or B is not an active
\* goal leaves the goals list unchanged.
C24_DropReorders ==
  [][ (lastOp'.op = "handleDrop" /\ now' = now /\ mounted = "goals") =>
        LET d == lastOp'.dragged
            t == lastOp'.target
        IN IF d = 0 \/ d = t
           THEN goals' = goals
           ELSE IF goals[d].archived \/ goals[t].archived
                THEN goals' = goals
                ELSE Reordered(goals, goals', d, t) ]_vars

\* The same of drops on lists of goals with distinct ids only.
DistinctIdsDropReorders ==
  [][ (lastOp'.op = "handleDrop" /\ now' = now /\ mounted = "goals"
       /\ UniqueIds(goals)) =>
        LET d == lastOp'.dragged
            t == lastOp'.target
        IN IF d = 0 \/ d = t
           THEN goals' = goals
           ELSE IF goals[d].archived \/ goals[t].archived
                THEN goals' = goals
                ELSE Reordered(goals, goals', d, t) ]_vars

====
